---- MODULE Spec2Model ----
(***************************************************************************)
(* Model of mailboxzero's similarity engine (internal/similarity).         *)
(*                                                                         *)
(* Strings are sequences of one-character strings (Go runes).  float64     *)
(* similarities are exact rationals scaled by One: every length that       *)
(* divides a distance in the model (at most 12 bytes) divides One/10.      *)
(* The rounding of float64 arithmetic is not modelled.                     *)
(***************************************************************************)
EXTENDS Integers, Sequences, FiniteSets, TLC

\* ------------------------------------------------------------------------
\* Runes
\* ------------------------------------------------------------------------
LowerLetters == {"a", "b", "c", "d", "x", "y", "z"}
UpperLetters == {"A"}
WideLetters == {"é"}
Digits == {"1"}
Spaces == {" ", "\t"}

\* Byte length of a rune in UTF-8 (Go's len() counts bytes).
RuneLen(r) == IF r \in WideLetters THEN 2 ELSE 1

\* unicode.ToLower on one rune.
ToLowerRune(r) == IF r = "A" THEN "a" ELSE r

IsLetter(r) == r \in LowerLetters \cup UpperLetters \cup WideLetters
IsDigit(r) == r \in Digits
IsSpace(r) == r \in Spaces

\* len(s) of a Go string: the number of bytes.
RECURSIVE ByteLen(_)
ByteLen(s) == IF s = <<>> THEN 0 ELSE RuneLen(Head(s)) + ByteLen(Tail(s))

\* strings.TrimSpace, left and right parts.
RECURSIVE TrimLeft(_)
TrimLeft(s) ==
    IF s = <<>> THEN <<>>
    ELSE IF IsSpace(Head(s)) THEN TrimLeft(Tail(s)) ELSE s

RECURSIVE TrimRight(_)
TrimRight(s) ==
    IF s = <<>> THEN <<>>
    ELSE IF IsSpace(s[Len(s)]) THEN TrimRight(SubSeq(s, 1, Len(s) - 1)) ELSE s

TrimSpace(s) == TrimRight(TrimLeft(s))

\* strings.ToLower.
ToLower(s) == [k \in 1..Len(s) |-> ToLowerRune(s[k])]

\* normalizeString trimming the ends before the runes are replaced instead
\* of after (line 178).
normalizeStringTrimFirst(s) ==
    LET lowered == TrimSpace(ToLower(s))
    IN [k \in 1..Len(lowered) |->
          IF IsLetter(lowered[k]) \/ IsDigit(lowered[k]) \/ IsSpace(lowered[k])
          THEN lowered[k] ELSE " "]

\* normalizeString: lower-case, every rune that is not a letter, a digit or
\* white space becomes one space, then the ends are trimmed.
normalizeString(s) ==
    LET lowered == ToLower(s)
        result == [k \in 1..Len(lowered) |->
                     IF IsLetter(lowered[k]) \/ IsDigit(lowered[k]) \/ IsSpace(lowered[k])
                     THEN lowered[k] ELSE " "]
    IN TrimSpace(result)

\* strings.Fields: the maximal runs of non-space runes, in order.
RECURSIVE FieldsFrom(_, _, _)
FieldsFrom(s, k, word) ==
    IF k > Len(s) THEN (IF word = <<>> THEN <<>> ELSE <<word>>)
    ELSE IF IsSpace(s[k])
         THEN (IF word = <<>> THEN <<>> ELSE <<word>>) \o FieldsFrom(s, k + 1, <<>>)
         ELSE FieldsFrom(s, k + 1, Append(word, s[k]))

Fields(s) == FieldsFrom(s, 1, <<>>)

\* containsCommonWords: counts the words of s1 of at least 3 bytes that occur
\* among the words of s2 (one count per word of s1); true from 2 on.
containsCommonWords(s1, s2) ==
    LET words1 == Fields(s1)
        words2 == Fields(s2)
        commonWords == Cardinality({k \in 1..Len(words1) :
                          /\ ~(ByteLen(words1[k]) < 3)
                          /\ \E m \in 1..Len(words2) : words1[k] = words2[m]})
    IN commonWords >= 2

min(a, b, c) == IF a < b THEN (IF a < c THEN a ELSE c) ELSE (IF b < c THEN b ELSE c)

max(a, b) == IF a > b THEN a ELSE b

\* levenshteinDistance, inner loop over y for one x: column is indexed 0..len(r1).
RECURSIVE LevInner(_, _, _, _, _, _)
LevInner(column, lastkey, y, x, r1, r2) ==
    IF y > Len(r1) THEN column
    ELSE LET oldkey == column[y]
             incr == IF r1[y] # r2[x] THEN 1 ELSE 0
             newcol == [column EXCEPT ![y] = min(column[y] + 1, column[y - 1] + 1, lastkey + incr)]
         IN LevInner(newcol, oldkey, y + 1, x, r1, r2)

\* levenshteinDistance, outer loop over x.
RECURSIVE LevOuter(_, _, _, _)
LevOuter(column, x, r1, r2) ==
    IF x > Len(r2) THEN column
    ELSE LevOuter(LevInner([column EXCEPT ![0] = x], x - 1, 1, x, r1, r2), x + 1, r1, r2)

\* levenshteinDistance without the loop of lines 205-207 that fills the
\* column.
levenshteinDistanceZeroColumn(s1, s2) ==
    LET column == [y \in 0..Len(s1) |-> 0]
    IN LevOuter(column, 1, s1, s2)[Len(s1)]

levenshteinDistance(s1, s2) ==
    LET column == [y \in 0..Len(s1) |-> y]
    IN LevOuter(column, 1, s1, s2)[Len(s1)]

\* float64 1.0 in the model's fixed-point unit.
One == 10 * 27720

\* stringSimilarity with the clamp of lines 159-161 left out.
stringSimilarityUnclamped(a, b) ==
    LET s1 == normalizeString(a)
        s2 == normalizeString(b)
    IN IF s1 = s2 THEN One
       ELSE IF s1 = <<>> \/ s2 = <<>> THEN 0
       ELSE LET distance == levenshteinDistance(s1, s2)
                maxLen == max(ByteLen(s1), ByteLen(s2))
                base == One - ((distance * One) \div maxLen)
            IN IF containsCommonWords(s1, s2) THEN base + (One \div 10) ELSE base

\* stringSimilarity with the test of line 142 for an empty string made
\* before the test of line 138 for equal strings.
stringSimilarityEmptyFirst(a, b) ==
    LET s1 == normalizeString(a)
        s2 == normalizeString(b)
    IN IF s1 = <<>> \/ s2 = <<>> THEN 0
       ELSE IF s1 = s2 THEN One
       ELSE LET distance == levenshteinDistance(s1, s2)
                maxLen == max(ByteLen(s1), ByteLen(s2))
                base == One - ((distance * One) \div maxLen)
                similarity == IF containsCommonWords(s1, s2) THEN base + (One \div 10) ELSE base
            IN IF similarity > One THEN One ELSE similarity

\* stringSimilarity.
stringSimilarity(a, b) ==
    LET s1 == normalizeString(a)
        s2 == normalizeString(b)
    IN IF s1 = s2 THEN One
       ELSE IF s1 = <<>> \/ s2 = <<>> THEN 0
       ELSE LET distance == levenshteinDistance(s1, s2)
                maxLen == max(ByteLen(s1), ByteLen(s2))
                base == One - ((distance * One) \div maxLen)
                similarity == IF containsCommonWords(s1, s2) THEN base + (One \div 10) ELSE base
            IN IF maxLen = 0 THEN One
               ELSE IF similarity > One THEN One ELSE similarity

\* ------------------------------------------------------------------------
\* Emails (jmap.Email): ID, Subject, From (the Email field of each address),
\* Preview, BodyValues (the values of the map; its keys are never read).
\* ------------------------------------------------------------------------

\* extractEmailBody: the values it can return.  Go iterates a map in an
\* unspecified order, so with an empty preview any non-empty body value can
\* be the first one met.
extractEmailBody(email) ==
    IF email.Preview # <<>> THEN {email.Preview}
    ELSE LET nonEmpty == {v \in email.BodyValues : v # <<>>}
         IN IF nonEmpty = {} THEN {<<>>}
            ELSE {normalizeString(v) : v \in nonEmpty}

\* The weighting with the sender and body weights exchanged.
weightedSimilaritySwapped(subjectSim, senderSim, bodySim) ==
    (subjectSim * 4 + senderSim * 2 + bodySim * 4) \div 10

\* The 0.4 / 0.4 / 0.2 weighting of calculateEmailSimilarity.
weightedSimilarity(subjectSim, senderSim, bodySim) ==
    (subjectSim * 4 + senderSim * 4 + bodySim * 2) \div 10

\* The sender term of calculateEmailSimilarity.
senderSimilarity(email1, email2) ==
    IF Len(email1.From) > 0 /\ Len(email2.From) > 0
    THEN stringSimilarity(email1.From[1], email2.From[1])
    ELSE 0

\* The body term without the test of line 102 for an empty body.
bodySimilarityUnguarded(body1, body2) == stringSimilarity(body1, body2)

\* The body term of calculateEmailSimilarity, for the extracted bodies.
bodySimilarity(body1, body2) ==
    IF body1 # <<>> /\ body2 # <<>> THEN stringSimilarity(body1, body2) ELSE 0

\* calculateEmailSimilarity once body1 and body2 have been extracted: the
\* three terms and the weighted sum.
calculateEmailSimilarity(email1, email2, body1, body2) ==
    LET subjectSim == stringSimilarity(email1.Subject, email2.Subject)
        senderSim == senderSimilarity(email1, email2)
        bodySim == bodySimilarity(body1, body2)
    IN [subjectSim |-> subjectSim, senderSim |-> senderSim, bodySim |-> bodySim,
        body1 |-> body1, body2 |-> body2,
        sim |-> weightedSimilarity(subjectSim, senderSim, bodySim)]

\* Every value one call calculateEmailSimilarity(email1, email2) can return.
SimilarityOutcomes(email1, email2) ==
    {calculateEmailSimilarity(email1, email2, body1, body2).sim :
        body1 \in extractEmailBody(email1), body2 \in extractEmailBody(email2)}

\* ------------------------------------------------------------------------
\* Inputs of the scoring runs
\* ------------------------------------------------------------------------
ScoreSubjects ==
    { <<>>,
      <<"a", "b", "c">>,
      <<"A", "b", "c", " ", "a", "b", "c">> }

ScoreFroms ==
    { <<>>,
      << <<>> >>,
      << <<"a", "@", "b">> >> }

ScorePreviews ==
    { <<>>,
      <<"a", "b", "c", " ", "a", "b", "d", " ", "x", "y", "z">>,
      <<"a", "b", "c", " ", "a", "b", "d", " ", "x", "y", "c">> }

ScoreBodyValues ==
    { {},
      {<<"x", "é", "z">>},
      {<<"!">>},
      {<<"a", "b", "c">>, <<"x", "y", "z">>} }

ScoreEmails ==
    [ID : {1}, Subject : ScoreSubjects, From : ScoreFroms,
     Preview : ScorePreviews, BodyValues : ScoreBodyValues]

NoScore == [done |-> FALSE, subjectSim |-> 0, senderSim |-> 0, bodySim |-> 0,
            body1 |-> <<>>, body2 |-> <<>>, sim |-> 0]

\* ------------------------------------------------------------------------
\* Inputs of the clustering runs
\* ------------------------------------------------------------------------
MaxEmails == 3

SenderX == << <<"a", "@", "b">> >>

Plain(id, subject) ==
    [ID |-> id, Subject |-> subject, From |-> SenderX, Preview |-> <<>>, BodyValues |-> {}]

\* Two identifiers occur twice (with different content), one email has two
\* body values and no preview, one has a preview, and one scores 0.0 with
\* all others (another subject, no sender, no body).
EmailPool ==
    { Plain(1, <<"a", "b">>),
      Plain(2, <<"a", "a">>),
      Plain(3, <<"b", "b">>),
      Plain(1, <<"b", "b">>),
      [ID |-> 2, Subject |-> <<"a", "b">>, From |-> SenderX, Preview |-> <<>>,
       BodyValues |-> {<<"a", "b">>, <<"b", "b">>}],
      [ID |-> 3, Subject |-> <<"a", "b">>, From |-> SenderX, Preview |-> <<"a", "b">>,
       BodyValues |-> {}],
      [ID |-> 4, Subject |-> <<"x", "x">>, From |-> <<>>, Preview |-> <<>>,
       BodyValues |-> {}] }

SmallCollections == UNION {[1..n -> EmailPool] : n \in 0..MaxEmails}

\* A collection that clusters into 13 groups at threshold 0.8: groups 2 and
\* 13 have three members, the others two; the members of a group are equal
\* but for their identifiers, emails of different groups score at most 0.6.
ManyLetters == <<"a", "b", "c", "x">>

ManyGroupOf(p) ==
    IF p <= 2 THEN 1
    ELSE IF p <= 5 THEN 2
    ELSE IF p <= 25 THEN 3 + ((p - 6) \div 2)
    ELSE 13

ManyGroups ==
    [p \in 1..28 |->
        Plain(p, <<ManyLetters[((ManyGroupOf(p) - 1) \div 4) + 1],
                   ManyLetters[((ManyGroupOf(p) - 1) % 4) + 1]>>)]

Collections == SmallCollections \cup {ManyGroups}

\* Thresholds below 0.0, inside [0.0, 1.0] and above 1.0: the engine does not
\* validate the threshold.
Thresholds ==
    {0 - (One \div 10), 0, One \div 2, (8 * One) \div 10, One, One + (One \div 10)}

\* ------------------------------------------------------------------------
\* Whole-collection clustering
\* ------------------------------------------------------------------------

\* calculateGroupSimilarity, inner loop: the sums of the similarities of the
\* pairs (i, j), (i, j+1), ... that can be reached; each pair is scored by
\* its own call of calculateEmailSimilarity.
RECURSIVE RowOutcomes(_, _, _)
RowOutcomes(group, i, j) ==
    IF j > Len(group) THEN {0}
    ELSE {s + t : s \in SimilarityOutcomes(group[i], group[j]),
                  t \in RowOutcomes(group, i, j + 1)}

\* calculateGroupSimilarity, outer loop from i on: the values totalSimilarity
\* can reach.
RECURSIVE TotalOutcomes(_, _)
TotalOutcomes(group, i) ==
    IF i > Len(group) THEN {0}
    ELSE {s + t : s \in RowOutcomes(group, i, i + 1),
                  t \in TotalOutcomes(group, i + 1)}

\* calculateGroupSimilarity dividing by the number of ordered pairs.
calculateGroupSimilarityOrdered(group) ==
    IF Len(group) <= 1 THEN {[total |-> 0, count |-> 1]}
    ELSE {[total |-> t, count |-> Len(group) * (Len(group) - 1)] :
            t \in TotalOutcomes(group, 1)}

\* calculateGroupSimilarity: the values it can return, the average kept as
\* the pair total / count (0 / 1 stands for the 0.0 of the early returns).
calculateGroupSimilarity(group) ==
    IF Len(group) <= 1 THEN {[total |-> 0, count |-> 1]}
    ELSE {[total |-> t, count |-> (Len(group) * (Len(group) - 1)) \div 2] :
            t \in TotalOutcomes(group, 1)}

\* sort.Slice sorts up to maxInsertion elements by insertion sort, which
\* keeps equal elements in order; above that it promises no stability.
maxInsertion == 12

MaxLen(groups) ==
    CHOOSE n \in {Len(groups[k].Emails) : k \in 1..Len(groups)} :
        \A k \in 1..Len(groups) : Len(groups[k].Emails) <= n

\* The indexes (in formation order) of the groups that can be groups[0]
\* after sort.Slice(groups, len(groups[i].Emails) > len(groups[j].Emails)).
SortedFirst(groups) ==
    LET largest == {k \in 1..Len(groups) : Len(groups[k].Emails) = MaxLen(groups)}
    IN IF Len(groups) <= maxInsertion
       THEN {CHOOSE k \in largest : \A m \in largest : k <= m}
       ELSE largest

VARIABLES
    sEmail1,    \* first argument of the scoring calls
    sEmail2,    \* second argument of the scoring calls
    sFwd,       \* locals and result of calculateEmailSimilarity(sEmail1, sEmail2)
    sRev,       \* locals and result of calculateEmailSimilarity(sEmail2, sEmail1)
    emails,     \* the collection passed to the engine
    threshold,  \* the threshold passed to the engine
    pc,         \* position in FindSimilarEmails / groupSimilarEmails
    i,          \* outer loop index of groupSimilarEmails (1-based)
    j,          \* inner loop index of groupSimilarEmails (1-based)
    group,      \* the group under construction
    groups,     \* the groups formed so far, in formation order
    processed,  \* identifiers marked processed
    result,     \* what FindSimilarEmails returned
    targetEmail,    \* the target passed to FindSimilarToEmail
    k,              \* loop index of FindSimilarToEmail (1-based)
    similarEmails,  \* the list FindSimilarToEmail builds and returns
    earlier,        \* threshold and result of the call before this one
    dryRun,         \* Config.DryRun of the server
    client,         \* the JMAP client of the server: "mock" or "real"
    sampleEmails,   \* MockClient.sampleEmails (for the real client: the mailbox)
    archivedIDs,    \* MockClient.archivedIDs (for the real client: moved to the archive)
    sent,           \* the JMAP methods the real client sent for the last request
    req,            \* the HTTP request, or the call of the mock client, made last
    resp,           \* its response, or what the call returned
    str1,           \* first argument of the calls of the string functions
    str2,           \* second argument of the calls of the string functions
    strOut,         \* the string function called last and what it returned
    ui,             \* the fields of the MailboxZero object of the page and what the page shows
    net,            \* the HTTP exchanges of the page that are under way
    routines,       \* the goroutines of the server, each serving one request
    fatal           \* the Go runtime has ended the process with a fatal error

scoreVars == <<sEmail1, sEmail2, sFwd, sRev>>

clusterVars == <<emails, threshold, pc, i, j, group, groups, processed, result>>

matchVars == <<targetEmail, k, similarEmails, earlier>>

serverVars == <<dryRun, client, sampleEmails, archivedIDs, sent, req, resp>>

stringVars == <<str1, str2, strOut>>

uiVars == <<ui, net>>

raceVars == <<routines, fatal>>

vars == <<scoreVars, clusterVars, matchVars, serverVars, stringVars, uiVars, raceVars>>

\* Values of the variables a run does not use.
ScoreIdle ==
    /\ sEmail1 = Plain(1, <<>>)
    /\ sEmail2 = Plain(1, <<>>)
    /\ sFwd = NoScore
    /\ sRev = NoScore

ClusterIdle ==
    /\ emails = <<>>
    /\ threshold = 0
    /\ pc = "unused"
    /\ i = 0
    /\ j = 0
    /\ group = <<>>
    /\ groups = <<>>
    /\ processed = {}
    /\ result = <<>>

NoCall == [called |-> FALSE, threshold |-> 0, similarEmails |-> <<>>]

MatchIdle ==
    /\ targetEmail = Plain(1, <<>>)
    /\ k = 0
    /\ similarEmails = <<>>
    /\ earlier = NoCall

\* again is what normalizeString returns for its own output.
NoOutput ==
    [op |-> "none", distance |-> 0, similarity |-> 0, normalized |-> <<>>,
     again |-> <<>>, common |-> FALSE]

StringIdle ==
    /\ str1 = <<>>
    /\ str2 = <<>>
    /\ strOut = NoOutput

\* The empty identifier (EmailID "" of a request, null in the page).
NoID == 0

\* The constructor of MailboxZero, line 454.
PerPageDefault == 100

\* The fields of MailboxZero after lines 444-455 of the constructor, what
\* the two panes show (inboxList, similarList), whether the archive dialog is
\* shown (modal), the number of clicks and changes received (events), and
\* the state of the controls, which the page template sets at first.
\* similarNull tells that similarEmails is null.
NewPage(controls) ==
    [emails |-> <<>>, similarEmails |-> <<>>, similarNull |-> FALSE,
     selectedEmailId |-> NoID, selectedSimilarEmails |-> {},
     totalInboxCount |-> 0, currentPage |-> 1, perPage |-> PerPageDefault, totalPages |-> 1,
     inboxList |-> "template", similarList |-> "template", modal |-> FALSE,
     events |-> 0,
     selectAllChecked |-> controls.selectAllChecked,
     archiveDisabled |-> controls.archiveDisabled,
     clearResultsDisabled |-> controls.clearResultsDisabled,
     prevPageDisabled |-> controls.prevPageDisabled,
     nextPageDisabled |-> controls.nextPageDisabled]

\* A goroutine that serves no request.
NoRoutine ==
    [kind |-> "none", pc |-> "idle", n |-> 0, ids |-> <<>>,
     totalCount |-> 0, inboxEmails |-> <<>>]

RaceIdle ==
    /\ routines = <<>>
    /\ fatal = FALSE

\* The states the template can give the controls. The page buttons are
\* not read before updatePaginationInfo has set them: currentPage and
\* totalPages are 1 until a load has succeeded.
Controls ==
    [selectAllChecked : BOOLEAN, archiveDisabled : BOOLEAN, clearResultsDisabled : BOOLEAN,
     prevPageDisabled : {TRUE}, nextPageDisabled : {TRUE}]

UIIdle ==
    /\ ui = NewPage([selectAllChecked |-> FALSE, archiveDisabled |-> TRUE,
                     clearResultsDisabled |-> TRUE, prevPageDisabled |-> TRUE,
                     nextPageDisabled |-> TRUE])
    /\ net = {}

NoRequest ==
    [kind |-> "none", malformed |-> FALSE, limit |-> 0, offset |-> 0,
     emailId |-> NoID, pct |-> 0, ids |-> <<>>, dryRun |-> FALSE]

\* status is the HTTP status (0 when none was written), err and panic tell
\* how a call of the client ended.
NoResponse ==
    [status |-> 0, err |-> FALSE, panic |-> FALSE, emails |-> <<>>, totalCount |-> 0]

ServerIdle ==
    /\ dryRun = FALSE
    /\ client = "mock"
    /\ sampleEmails = <<>>
    /\ archivedIDs = {}
    /\ sent = {}
    /\ req = NoRequest
    /\ resp = NoResponse

\* ------------------------------------------------------------------------
\* Scoring runs: calculateEmailSimilarity on a pair, in both orders
\* ------------------------------------------------------------------------
ScoreInit ==
    /\ sEmail1 \in ScoreEmails
    /\ sEmail2 \in ScoreEmails
    /\ sFwd = NoScore
    /\ sRev = NoScore
    /\ StringIdle
    /\ UIIdle
    /\ RaceIdle
    /\ ClusterIdle
    /\ MatchIdle
    /\ ServerIdle

\* One call calculateEmailSimilarity(sEmail1, sEmail2).
ScoreForward ==
    /\ ~sFwd.done
    /\ \E body1 \in extractEmailBody(sEmail1), body2 \in extractEmailBody(sEmail2) :
         sFwd' = [done |-> TRUE] @@ calculateEmailSimilarity(sEmail1, sEmail2, body1, body2)
    /\ UNCHANGED <<stringVars, uiVars, raceVars, sEmail1, sEmail2, sRev, clusterVars, matchVars, serverVars>>

\* One call calculateEmailSimilarity(sEmail2, sEmail1).
ScoreReverse ==
    /\ ~sRev.done
    /\ \E body1 \in extractEmailBody(sEmail2), body2 \in extractEmailBody(sEmail1) :
         sRev' = [done |-> TRUE] @@ calculateEmailSimilarity(sEmail2, sEmail1, body1, body2)
    /\ UNCHANGED <<stringVars, uiVars, raceVars, sEmail1, sEmail2, sFwd, clusterVars, matchVars, serverVars>>

ScoreNext == ScoreForward \/ ScoreReverse

SpecScore == ScoreInit /\ [][ScoreNext]_vars

\* ------------------------------------------------------------------------
\* String runs: the string functions called on a pair of strings
\* ------------------------------------------------------------------------
MaxStr == 3

StringRunes == {"a", "b", "é"}

\* Strings with upper case, digits, punctuation and white space, and pairs
\* of strings sharing words of two or three runes.
SampleStrings ==
    { <<"A">>,
      <<"a", "!">>,
      <<"!">>,
      <<"?", "?">>,
      <<" ", "a", " ">>,
      <<"A", "!", "!", "b", "1">>,
      <<"a", "\t", "b">>,
      <<"a", "b", "c", " ", "a", "b", "d">>,
      <<"a", "b", "d", " ", "a", "b", "c">>,
      <<"a", "b", "c", " ", "x", "y", "z">>,
      <<"a", "b", "c", " ", "a", "b", "c">>,
      <<"a", "b", " ", "c", "d">>,
      <<"c", "d", " ", "a", "b">>,
      <<"é", "a", " ", "é", "b">>,
      <<"é", "b", " ", "é", "a">> }

Strings == SampleStrings \cup UNION {[1..n -> StringRunes] : n \in 0..MaxStr}

StringInit ==
    /\ ScoreIdle
    /\ UIIdle
    /\ RaceIdle
    /\ ClusterIdle
    /\ MatchIdle
    /\ ServerIdle
    /\ str1 \in Strings
    /\ str2 \in Strings
    /\ strOut = NoOutput

CallLevenshteinDistance ==
    /\ strOut' = [NoOutput EXCEPT !.op = "levenshteinDistance",
                                  !.distance = levenshteinDistance(str1, str2)]
    /\ UNCHANGED <<scoreVars, clusterVars, matchVars, serverVars, uiVars, raceVars, str1, str2>>

CallStringSimilarity ==
    /\ strOut' = [NoOutput EXCEPT !.op = "stringSimilarity",
                                  !.similarity = stringSimilarity(str1, str2)]
    /\ UNCHANGED <<scoreVars, clusterVars, matchVars, serverVars, uiVars, raceVars, str1, str2>>

\* normalizeString(str1), and normalizeString of what it returned.
CallNormalizeString ==
    /\ strOut' = [NoOutput EXCEPT !.op = "normalizeString",
                                  !.normalized = normalizeString(str1),
                                  !.again = normalizeString(normalizeString(str1))]
    /\ UNCHANGED <<scoreVars, clusterVars, matchVars, serverVars, uiVars, raceVars, str1, str2>>

CallContainsCommonWords ==
    /\ strOut' = [NoOutput EXCEPT !.op = "containsCommonWords",
                                  !.common = containsCommonWords(str1, str2)]
    /\ UNCHANGED <<scoreVars, clusterVars, matchVars, serverVars, uiVars, raceVars, str1, str2>>

StringNext ==
    \/ CallLevenshteinDistance
    \/ CallStringSimilarity
    \/ CallNormalizeString
    \/ CallContainsCommonWords

SpecString == StringInit /\ [][StringNext]_vars

\* ------------------------------------------------------------------------
\* Clustering runs: FindSimilarEmails(emails, threshold)
\* ------------------------------------------------------------------------
Init ==
    /\ ScoreIdle
    /\ StringIdle
    /\ UIIdle
    /\ RaceIdle
    /\ MatchIdle
    /\ ServerIdle
    /\ emails \in Collections
    /\ threshold \in Thresholds
    /\ pc = "call"
    /\ i = 0
    /\ j = 0
    /\ group = <<>>
    /\ groups = <<>>
    /\ processed = {}
    /\ result = <<>>

\* FindSimilarEmails with a processed map that outlives the call instead of
\* the map made at line 55.
FindSimilarEmailsCallStale ==
    /\ pc = "call"
    /\ IF Len(emails) = 0
       THEN /\ pc' = "done"
            /\ result' = <<>>
            /\ UNCHANGED <<i, groups, processed>>
       ELSE /\ pc' = "outer"
            /\ i' = 1
            /\ groups' = <<>>
            /\ UNCHANGED <<processed, result>>
    /\ UNCHANGED <<scoreVars, stringVars, raceVars, uiVars, serverVars, matchVars, emails, threshold, j, group>>

\* FindSimilarEmails, lines 16-20: nil for an empty collection, else
\* groupSimilarEmails starts with no group and nothing processed.
FindSimilarEmailsCall ==
    /\ pc = "call"
    /\ IF Len(emails) = 0
       THEN /\ pc' = "done"
            /\ result' = <<>>
            /\ UNCHANGED <<i, groups, processed>>
       ELSE /\ pc' = "outer"
            /\ i' = 1
            /\ groups' = <<>>
            /\ processed' = {}
            /\ UNCHANGED result
    /\ UNCHANGED <<scoreVars, stringVars, raceVars, uiVars, serverVars, matchVars, emails, threshold, j, group>>

\* groupSimilarEmails, lines 57-64: one iteration of the outer loop up to the
\* start of the inner loop.
OuterStep ==
    /\ pc = "outer"
    /\ i <= Len(emails)
    /\ IF emails[i].ID \in processed
       THEN /\ i' = i + 1
            /\ UNCHANGED <<pc, j, group, processed>>
       ELSE /\ group' = <<emails[i]>>
            /\ processed' = processed \cup {emails[i].ID}
            /\ j' = i + 1
            /\ pc' = "inner"
            /\ UNCHANGED i
    /\ UNCHANGED <<scoreVars, stringVars, raceVars, uiVars, serverVars, matchVars, emails, threshold, groups, result>>

\* The inner loop without the test of line 68 for a processed candidate.
InnerStepUnmarked ==
    /\ pc = "inner"
    /\ j <= Len(emails)
    /\ \E similarity \in SimilarityOutcomes(emails[i], emails[j]) :
         IF similarity >= threshold
         THEN /\ group' = Append(group, emails[j])
              /\ processed' = processed \cup {emails[j].ID}
         ELSE UNCHANGED <<group, processed>>
    /\ j' = j + 1
    /\ UNCHANGED <<scoreVars, stringVars, raceVars, uiVars, serverVars, matchVars, emails, threshold, pc, i, groups, result>>

\* The inner loop scoring the candidate against the member added last
\* instead of against the anchor emails[i].
InnerStepChained ==
    /\ pc = "inner"
    /\ j <= Len(emails)
    /\ IF emails[j].ID \in processed
       THEN UNCHANGED <<group, processed>>
       ELSE \E similarity \in SimilarityOutcomes(group[Len(group)], emails[j]) :
              IF similarity >= threshold
              THEN /\ group' = Append(group, emails[j])
                   /\ processed' = processed \cup {emails[j].ID}
              ELSE UNCHANGED <<group, processed>>
    /\ j' = j + 1
    /\ UNCHANGED <<scoreVars, stringVars, raceVars, uiVars, serverVars, matchVars, emails, threshold, pc, i, groups, result>>

\* The inner loop admitting a candidate that reaches the threshold with any
\* member of the group, not only with the anchor emails[i].
InnerStepAnyMember ==
    /\ pc = "inner"
    /\ j <= Len(emails)
    /\ IF emails[j].ID \in processed
       THEN UNCHANGED <<group, processed>>
       ELSE \E m \in 1..Len(group) :
              \E similarity \in SimilarityOutcomes(group[m], emails[j]) :
                IF similarity >= threshold
                THEN /\ group' = Append(group, emails[j])
                     /\ processed' = processed \cup {emails[j].ID}
                ELSE UNCHANGED <<group, processed>>
    /\ j' = j + 1
    /\ UNCHANGED <<scoreVars, stringVars, raceVars, uiVars, serverVars, matchVars, emails, threshold, pc, i, groups, result>>

\* The inner loop comparing with similarity > threshold at line 73.
InnerStepStrict ==
    /\ pc = "inner"
    /\ j <= Len(emails)
    /\ IF emails[j].ID \in processed
       THEN UNCHANGED <<group, processed>>
       ELSE \E similarity \in SimilarityOutcomes(emails[i], emails[j]) :
              IF similarity > threshold
              THEN /\ group' = Append(group, emails[j])
                   /\ processed' = processed \cup {emails[j].ID}
              ELSE UNCHANGED <<group, processed>>
    /\ j' = j + 1
    /\ UNCHANGED <<scoreVars, stringVars, raceVars, uiVars, serverVars, matchVars, emails, threshold, pc, i, groups, result>>

\* groupSimilarEmails, lines 66-77: one iteration of the inner loop.
InnerStep ==
    /\ pc = "inner"
    /\ j <= Len(emails)
    /\ IF emails[j].ID \in processed
       THEN UNCHANGED <<group, processed>>
       ELSE \E similarity \in SimilarityOutcomes(emails[i], emails[j]) :
              IF similarity >= threshold
              THEN /\ group' = Append(group, emails[j])
                   /\ processed' = processed \cup {emails[j].ID}
              ELSE UNCHANGED <<group, processed>>
    /\ j' = j + 1
    /\ UNCHANGED <<scoreVars, stringVars, raceVars, uiVars, serverVars, matchVars, emails, threshold, pc, i, groups, result>>

\* The end of the inner loop keeping a group of one member too
\* (len(group) > 0 at line 79).
InnerDoneKeepsSingle ==
    /\ pc = "inner"
    /\ j > Len(emails)
    /\ IF Len(group) > 0
       THEN \E avgSimilarity \in calculateGroupSimilarity(group) :
              groups' = Append(groups, [Emails |-> group, Similarity |-> avgSimilarity])
       ELSE UNCHANGED groups
    /\ group' = <<>>
    /\ i' = i + 1
    /\ pc' = "outer"
    /\ UNCHANGED <<scoreVars, stringVars, raceVars, uiVars, serverVars, matchVars, emails, threshold, j, processed, result>>

\* The end of the inner loop without the size test of line 79.
InnerDoneUntested ==
    /\ pc = "inner"
    /\ j > Len(emails)
    /\ \E avgSimilarity \in calculateGroupSimilarity(group) :
         groups' = Append(groups, [Emails |-> group, Similarity |-> avgSimilarity])
    /\ group' = <<>>
    /\ i' = i + 1
    /\ pc' = "outer"
    /\ UNCHANGED <<scoreVars, stringVars, raceVars, uiVars, serverVars, matchVars, emails, threshold, j, processed, result>>

\* groupSimilarEmails, lines 79-85: the inner loop is over, the group is kept
\* if it has more than one member.
InnerDone ==
    /\ pc = "inner"
    /\ j > Len(emails)
    /\ IF Len(group) > 1
       THEN \E avgSimilarity \in calculateGroupSimilarity(group) :
              groups' = Append(groups, [Emails |-> group, Similarity |-> avgSimilarity])
       ELSE UNCHANGED groups
    /\ group' = <<>>
    /\ i' = i + 1
    /\ pc' = "outer"
    /\ UNCHANGED <<scoreVars, stringVars, raceVars, uiVars, serverVars, matchVars, emails, threshold, j, processed, result>>

\* FindSimilarEmails, lines 22-30: groupSimilarEmails has returned; nil
\* without groups, else groups[0].Emails after the sort.
SortAndReturn ==
    /\ pc = "outer"
    /\ i > Len(emails)
    /\ IF Len(groups) = 0
       THEN result' = <<>>
       ELSE \E first \in SortedFirst(groups) : result' = groups[first].Emails
    /\ pc' = "done"
    /\ UNCHANGED <<scoreVars, stringVars, raceVars, uiVars, serverVars, matchVars, emails, threshold, i, j, group, groups, processed>>

Next == FindSimilarEmailsCall \/ OuterStep \/ InnerStep \/ InnerDone \/ SortAndReturn

Spec == Init /\ [][Next]_vars

\* ------------------------------------------------------------------------
\* Matching runs: FindSimilarToEmail(targetEmail, emails, threshold), called
\* twice on the same target and collection
\* ------------------------------------------------------------------------
MatchPool ==
    { Plain(1, <<"a", "b">>),
      Plain(2, <<"a", "a">>),
      [ID |-> 2, Subject |-> <<"a", "b">>, From |-> SenderX, Preview |-> <<>>,
       BodyValues |-> {<<"a", "b">>, <<"b", "b">>}],
      [ID |-> 3, Subject |-> <<"a", "b">>, From |-> SenderX, Preview |-> <<"a", "b">>,
       BodyValues |-> {}] }

MatchCollections == UNION {[1..n -> MatchPool] : n \in 0..MaxEmails}

\* A target of the pool with one body, one with two body values, and one
\* whose identifier no email of the pool has and that scores 0.0 with the
\* emails of the pool (another subject, no sender, no body).
MatchTargets ==
    { Plain(1, <<"a", "b">>),
      [ID |-> 2, Subject |-> <<"a", "b">>, From |-> SenderX, Preview |-> <<>>,
       BodyValues |-> {<<"a", "b">>, <<"b", "b">>}],
      [ID |-> 4, Subject |-> <<"x", "x">>, From |-> <<>>, Preview |-> <<>>,
       BodyValues |-> {}] }

MatchInit ==
    /\ ScoreIdle
    /\ StringIdle
    /\ UIIdle
    /\ RaceIdle
    /\ ServerIdle
    /\ emails \in MatchCollections
    /\ threshold \in Thresholds
    /\ pc = "mcall"
    /\ i = 0
    /\ j = 0
    /\ group = <<>>
    /\ groups = <<>>
    /\ processed = {}
    /\ result = <<>>
    /\ targetEmail \in MatchTargets
    /\ k = 0
    /\ similarEmails = <<>>
    /\ earlier = NoCall

\* FindSimilarToEmail, lines 34-37: the list starts with the target.
FindSimilarToEmailCall ==
    /\ pc = "mcall"
    /\ similarEmails' = <<targetEmail>>
    /\ k' = 1
    /\ pc' = "mloop"
    /\ UNCHANGED <<scoreVars, stringVars, raceVars, uiVars, serverVars, emails, threshold, i, j, group, groups, processed, result,
                   targetEmail, earlier>>

\* The loop without the identifier test of lines 40-42.
MatchStepNoSkip ==
    /\ pc = "mloop"
    /\ k <= Len(emails)
    /\ \E similarity \in SimilarityOutcomes(targetEmail, emails[k]) :
         IF similarity >= threshold
         THEN similarEmails' = Append(similarEmails, emails[k])
         ELSE UNCHANGED similarEmails
    /\ k' = k + 1
    /\ UNCHANGED <<scoreVars, stringVars, raceVars, uiVars, serverVars, emails, threshold, pc, i, j, group, groups, processed, result,
                   targetEmail, earlier>>

\* The loop comparing with similarity > threshold at line 45.
MatchStepStrict ==
    /\ pc = "mloop"
    /\ k <= Len(emails)
    /\ IF emails[k].ID = targetEmail.ID
       THEN UNCHANGED similarEmails
       ELSE \E similarity \in SimilarityOutcomes(targetEmail, emails[k]) :
              IF similarity > threshold
              THEN similarEmails' = Append(similarEmails, emails[k])
              ELSE UNCHANGED similarEmails
    /\ k' = k + 1
    /\ UNCHANGED <<scoreVars, stringVars, raceVars, uiVars, serverVars, emails, threshold, pc, i, j, group, groups, processed, result,
                   targetEmail, earlier>>

\* FindSimilarToEmail, lines 39-48: one iteration of the loop.
MatchStep ==
    /\ pc = "mloop"
    /\ k <= Len(emails)
    /\ IF emails[k].ID = targetEmail.ID
       THEN UNCHANGED similarEmails
       ELSE \E similarity \in SimilarityOutcomes(targetEmail, emails[k]) :
              IF similarity >= threshold
              THEN similarEmails' = Append(similarEmails, emails[k])
              ELSE UNCHANGED similarEmails
    /\ k' = k + 1
    /\ UNCHANGED <<scoreVars, stringVars, raceVars, uiVars, serverVars, emails, threshold, pc, i, j, group, groups, processed, result,
                   targetEmail, earlier>>

\* FindSimilarToEmail, line 50: the loop is over, the list is returned.
MatchReturn ==
    /\ pc = "mloop"
    /\ k > Len(emails)
    /\ pc' = "mdone"
    /\ UNCHANGED <<scoreVars, stringVars, raceVars, uiVars, serverVars, emails, threshold, i, j, group, groups, processed, result,
                   matchVars>>

\* The caller keeps the returned list and calls again, with any threshold.
MatchAgain ==
    /\ pc = "mdone"
    /\ ~earlier.called
    /\ earlier' = [called |-> TRUE, threshold |-> threshold, similarEmails |-> similarEmails]
    /\ threshold' \in Thresholds
    /\ pc' = "mcall"
    /\ UNCHANGED <<scoreVars, stringVars, raceVars, uiVars, serverVars, emails, i, j, group, groups, processed, result,
                   targetEmail, k, similarEmails>>

MatchNext == FindSimilarToEmailCall \/ MatchStep \/ MatchReturn \/ MatchAgain

SpecMatch == MatchInit /\ [][MatchNext]_vars

\* ------------------------------------------------------------------------
\* Engine runs: a caller of either entry point; FindSimilarEmails too is
\* called a second time on the same collection
\* ------------------------------------------------------------------------
EngineInit == Init \/ MatchInit

\* The caller keeps the returned list and calls FindSimilarEmails again, with
\* the same arguments.
FindSimilarEmailsAgain ==
    /\ pc = "done"
    /\ ~earlier.called
    /\ earlier' = [called |-> TRUE, threshold |-> threshold, similarEmails |-> result]
    /\ pc' = "call"
    /\ UNCHANGED <<scoreVars, stringVars, raceVars, uiVars, serverVars, emails, threshold, i, j, group, groups, processed, result,
                   targetEmail, k, similarEmails>>

EngineNext == Next \/ MatchNext \/ FindSimilarEmailsAgain

SpecEngine == EngineInit /\ [][EngineNext]_vars

\* ------------------------------------------------------------------------
\* The mock JMAP client (MockClient)
\* ------------------------------------------------------------------------

\* The largest int: the model keeps Go's wrapping int arithmetic at a
\* smaller width.
MaxInt == 1023

WrapInt(x) ==
    IF x > MaxInt THEN x - (2 * (MaxInt + 1))
    ELSE IF x < 0 - (MaxInt + 1) THEN x + (2 * (MaxInt + 1))
    ELSE x

Range(s) == {s[n] : n \in 1..Len(s)}

\* The smaller of two integers (not Go ints: no wrapping).
Smaller(a, b) == IF a < b THEN a ELSE b

SampleSenders == << <<"a", "@", "b">>, <<"c", "@", "d">> >>

SampleSubjects == << <<"a", "b">>, <<"c", "d">> >>

SampleContents == << <<"a", "b", "c">>, <<"x", "y", "z">> >>

\* generateSampleEmails, lines 167-191: the emails of one sender, the later
\* ones with a variation appended to the subject.
SenderEmails(s, numSimilar) ==
    [n \in 1..numSimilar |->
        [ID |-> (2 * (s - 1)) + n,
         Subject |-> IF n > 1 THEN SampleSubjects[s] \o <<" ", "u">> ELSE SampleSubjects[s],
         From |-> <<SampleSenders[s]>>,
         Preview |-> SampleContents[s],
         BodyValues |-> {SampleContents[s] \o <<" ", "m">>}]]

UniqueEmail ==
    [ID |-> 5, Subject |-> <<"w">>, From |-> << <<"e", "@", "f">> >>,
     Preview |-> <<"t">>, BodyValues |-> {<<"t", " ", "m">>}]

\* generateSampleEmails: the lists it can build, the number of emails of a
\* sender being drawn at random.
SampleLists ==
    {SenderEmails(1, n1) \o SenderEmails(2, n2) \o <<UniqueEmail>> : n1, n2 \in 1..2}

\* The sample emails without the filter of line 59.
inboxEmailsUnfiltered == sampleEmails

\* GetInboxEmailsPaginated, lines 57-62: the sample emails not archived.
inboxEmails ==
    LET Kept(email) == email.ID \notin archivedIDs
    IN SelectSeq(sampleEmails, Kept)

\* GetInboxEmailsPaginated, lines 64-75: the page, or the panic of a slice
\* expression whose bounds are out of range.
GetInboxEmailsPaginated(limit, offset) ==
    LET start == offset
    IN IF start >= Len(inboxEmails)
       THEN NoResponse
       ELSE LET sum == WrapInt(start + limit)
                end == IF sum > Len(inboxEmails) THEN Len(inboxEmails) ELSE sum
            IN IF start < 0 \/ end < start
               THEN [NoResponse EXCEPT !.panic = TRUE]
               ELSE [NoResponse EXCEPT !.emails = SubSeq(inboxEmails, start + 1, end)]

GetInboxEmails(limit) == GetInboxEmailsPaginated(limit, 0)

GetInboxEmailsWithCountPaginated(limit, offset) ==
    LET totalCount ==
            Cardinality({n \in 1..Len(sampleEmails) : sampleEmails[n].ID \notin archivedIDs})
        page == GetInboxEmailsPaginated(limit, offset)
    IN IF page.panic THEN page ELSE [page EXCEPT !.totalCount = totalCount]

GetInboxEmailsWithCount(limit) == GetInboxEmailsWithCountPaginated(limit, 0)

\* MockClient.ArchiveEmails without the dry-run test of line 106.
MockArchiveEmailsAlways(emailIDs, dry) ==
    {[err |-> FALSE, sent |-> {}, archivedIDs |-> archivedIDs \cup Range(emailIDs)]}

\* MockClient.ArchiveEmails: how the call can end (one way).
MockArchiveEmails(emailIDs, dry) ==
    {[err |-> FALSE, sent |-> {},
      archivedIDs |-> IF dry THEN archivedIDs ELSE archivedIDs \cup Range(emailIDs)]}

\* The arguments the mock client is called with.
Limits == {0, 1, 2, 100, MaxInt}

Offsets == {0, 1, 2, 4, MaxInt}

IDLists == {<<>>, <<1>>, <<2>>, <<1, 3>>, <<9>>}

MockInit ==
    /\ ScoreIdle
    /\ StringIdle
    /\ UIIdle
    /\ RaceIdle
    /\ ClusterIdle
    /\ MatchIdle
    /\ dryRun = FALSE
    /\ client = "mock"
    /\ sampleEmails \in SampleLists
    /\ archivedIDs = {}
    /\ sent = {}
    /\ req = NoRequest
    /\ resp = NoResponse

CallGetInboxEmails ==
    /\ \E limit \in Limits :
         /\ req' = [NoRequest EXCEPT !.kind = "GetInboxEmails", !.limit = limit]
         /\ resp' = GetInboxEmails(limit)
    /\ UNCHANGED <<scoreVars, stringVars, raceVars, uiVars, clusterVars, matchVars,
                   dryRun, client, sampleEmails, archivedIDs, sent>>

CallGetInboxEmailsPaginated ==
    /\ \E limit \in Limits, offset \in Offsets :
         /\ req' = [NoRequest EXCEPT !.kind = "GetInboxEmailsPaginated",
                                     !.limit = limit, !.offset = offset]
         /\ resp' = GetInboxEmailsPaginated(limit, offset)
    /\ UNCHANGED <<scoreVars, stringVars, raceVars, uiVars, clusterVars, matchVars,
                   dryRun, client, sampleEmails, archivedIDs, sent>>

CallGetInboxEmailsWithCount ==
    /\ \E limit \in Limits :
         /\ req' = [NoRequest EXCEPT !.kind = "GetInboxEmailsWithCount", !.limit = limit]
         /\ resp' = GetInboxEmailsWithCount(limit)
    /\ UNCHANGED <<scoreVars, stringVars, raceVars, uiVars, clusterVars, matchVars,
                   dryRun, client, sampleEmails, archivedIDs, sent>>

CallGetInboxEmailsWithCountPaginated ==
    /\ \E limit \in Limits, offset \in Offsets :
         /\ req' = [NoRequest EXCEPT !.kind = "GetInboxEmailsWithCountPaginated",
                                     !.limit = limit, !.offset = offset]
         /\ resp' = GetInboxEmailsWithCountPaginated(limit, offset)
    /\ UNCHANGED <<scoreVars, stringVars, raceVars, uiVars, clusterVars, matchVars,
                   dryRun, client, sampleEmails, archivedIDs, sent>>

CallArchiveEmails ==
    /\ \E emailIDs \in IDLists, dry \in BOOLEAN :
         /\ req' = [NoRequest EXCEPT !.kind = "ArchiveEmails",
                                     !.ids = emailIDs, !.dryRun = dry]
         /\ \E out \in MockArchiveEmails(emailIDs, dry) :
              /\ archivedIDs' = out.archivedIDs
              /\ resp' = [NoResponse EXCEPT !.err = out.err]
    /\ UNCHANGED <<scoreVars, stringVars, raceVars, uiVars, clusterVars, matchVars, dryRun, client, sampleEmails, sent>>

MockNext ==
    \/ CallGetInboxEmails
    \/ CallGetInboxEmailsPaginated
    \/ CallGetInboxEmailsWithCount
    \/ CallGetInboxEmailsWithCountPaginated
    \/ CallArchiveEmails

SpecMock == MockInit /\ [][MockNext]_vars

\* ------------------------------------------------------------------------
\* The HTTP server, with the mock or the real JMAP client
\* ------------------------------------------------------------------------

\* handleGetEmails, line 140: the limit without a usable query parameter.
DefaultLimit == 100

\* handleFindSimilar, line 180: the number of inbox emails fetched.
FetchLimit == 1000

\* Client.GetInboxEmails (the real client): how the call can end. Without a
\* primary account nothing is sent; the mailbox lookup or the query can
\* fail; else the server answers with up to limit emails of the inbox.
ClientGetInboxEmails(limit) ==
    { [err |-> TRUE, panic |-> FALSE, emails |-> <<>>, sent |-> {}],
      [err |-> TRUE, panic |-> FALSE, emails |-> <<>>, sent |-> {"Mailbox/get"}],
      [err |-> TRUE, panic |-> FALSE, emails |-> <<>>,
       sent |-> {"Mailbox/get", "Email/query", "Email/get"}],
      [err |-> FALSE, panic |-> FALSE,
       emails |-> SubSeq(inboxEmails, 1, Smaller(limit, Len(inboxEmails))),
       sent |-> {"Mailbox/get", "Email/query", "Email/get"}] }

\* s.jmapClient.GetInboxEmails of the client the server was built with.
jmapClientGetInboxEmails(limit) ==
    IF client = "mock"
    THEN {[err |-> r.err, panic |-> r.panic, emails |-> r.emails, sent |-> {}] :
            r \in {GetInboxEmails(limit)}}
    ELSE ClientGetInboxEmails(limit)

\* Client.ArchiveEmails (the real client): how the call can end. A dry run
\* returns before anything is sent; else the account or the mailbox lookup
\* can fail, and the Email/set request can fail or move the emails.
ClientArchiveEmails(emailIDs, dry) ==
    IF dry
    THEN {[err |-> FALSE, sent |-> {}, archivedIDs |-> archivedIDs]}
    ELSE { [err |-> TRUE, sent |-> {}, archivedIDs |-> archivedIDs],
           [err |-> TRUE, sent |-> {"Mailbox/get"}, archivedIDs |-> archivedIDs],
           [err |-> TRUE, sent |-> {"Mailbox/get", "Email/set"},
            archivedIDs |-> archivedIDs],
           [err |-> FALSE, sent |-> {"Mailbox/get", "Email/set"},
            archivedIDs |-> archivedIDs \cup Range(emailIDs)] }

\* s.jmapClient.ArchiveEmails of the client the server was built with.
jmapClientArchiveEmails(emailIDs, dry) ==
    IF client = "mock"
    THEN MockArchiveEmails(emailIDs, dry)
    ELSE ClientArchiveEmails(emailIDs, dry)

\* The lookup of the target falling back to the first email fetched when no
\* email has the identifier.
findTargetOrFirst(es, emailId) ==
    IF \E n \in 1..Len(es) : es[n].ID = emailId
    THEN CHOOSE n \in 1..Len(es) :
           es[n].ID = emailId /\ \A m \in 1..(n - 1) : es[m].ID # emailId
    ELSE IF Len(es) > 0 THEN 1 ELSE 0

\* handleFindSimilar, lines 188-194: the index of the first email fetched
\* that has the identifier, 0 when none has (targetEmail == nil).
findTarget(es, emailId) ==
    IF \E n \in 1..Len(es) : es[n].ID = emailId
    THEN CHOOSE n \in 1..Len(es) :
           es[n].ID = emailId /\ \A m \in 1..(n - 1) : es[m].ID # emailId
    ELSE 0

\* The requests of the model: query parameters (<<>> when absent or not a
\* number), identifiers and percentages.
QueryLimits == {<<>>, <<0>>, <<2>>, <<MaxInt>>}

QueryOffsets == {<<>>, <<0 - 1>>, <<1>>, <<2>>, <<MaxInt>>}

RequestIDs == {NoID, 1, 2, 9}

Percentages == {0, 80, 150}

ServerInit ==
    /\ ScoreIdle
    /\ StringIdle
    /\ UIIdle
    /\ RaceIdle
    /\ MatchIdle
    /\ emails = <<>>
    /\ threshold = 0
    /\ pc = "idle"
    /\ i = 0
    /\ j = 0
    /\ group = <<>>
    /\ groups = <<>>
    /\ processed = {}
    /\ result = <<>>
    /\ dryRun \in BOOLEAN
    /\ client \in {"mock", "real"}
    /\ sampleEmails \in SampleLists
    /\ archivedIDs = {}
    /\ sent = {}
    /\ req = NoRequest
    /\ resp = NoResponse

\* handleGetEmails on a request with the query parameters limitQ and offsetQ,
\* with the mock client (the paginated listing of the real client is not
\* among the sources).
handleGetEmailsOn(limitQ, offsetQ) ==
    /\ pc = "idle"
    /\ client = "mock"
    /\ LET limit == IF limitQ # <<>> /\ limitQ[1] > 0 THEN limitQ[1] ELSE DefaultLimit
           offset == IF offsetQ # <<>> /\ offsetQ[1] >= 0 THEN offsetQ[1] ELSE 0
           inboxInfo == GetInboxEmailsWithCountPaginated(limit, offset)
       IN /\ req' = [NoRequest EXCEPT !.kind = "emails", !.limit = limit, !.offset = offset]
          /\ resp' = IF inboxInfo.panic \/ inboxInfo.err
                     THEN [NoResponse EXCEPT !.panic = inboxInfo.panic,
                                             !.status = IF inboxInfo.panic THEN 0 ELSE 500]
                     ELSE [inboxInfo EXCEPT !.status = 200]
    /\ sent' = {}
    /\ UNCHANGED <<scoreVars, stringVars, raceVars, clusterVars, matchVars,
                   dryRun, client, sampleEmails, archivedIDs>>

\* handleGetEmails on any request.
handleGetEmails ==
    /\ \E limitQ \in QueryLimits, offsetQ \in QueryOffsets : handleGetEmailsOn(limitQ, offsetQ)
    /\ UNCHANGED uiVars

\* handleFindSimilar, lines 173-205, on a request whose body is malformed
\* or holds emailId and the percentage pct: up to the call of the engine.
handleFindSimilarOn(malformed, emailId, pct) ==
    /\ pc = "idle"
    /\ IF malformed
       THEN /\ req' = [NoRequest EXCEPT !.kind = "similar", !.malformed = TRUE]
            /\ resp' = [NoResponse EXCEPT !.status = 400]
            /\ sent' = {}
            /\ UNCHANGED <<emails, threshold, pc, targetEmail>>
       ELSE /\ req' = [NoRequest EXCEPT !.kind = "similar",
                                        !.emailId = emailId, !.pct = pct]
            /\ \E fetched \in jmapClientGetInboxEmails(FetchLimit) :
                 /\ sent' = fetched.sent
                 /\ IF fetched.panic \/ fetched.err
                    THEN /\ resp' = [NoResponse EXCEPT
                                       !.panic = fetched.panic,
                                       !.status = IF fetched.panic THEN 0 ELSE 500]
                         /\ UNCHANGED <<emails, threshold, pc, targetEmail>>
                    ELSE IF emailId # NoID
                    THEN LET target == findTarget(fetched.emails, emailId)
                         IN IF target = 0
                            THEN /\ resp' = [NoResponse EXCEPT !.status = 404]
                                 /\ UNCHANGED <<emails, threshold, pc, targetEmail>>
                            ELSE /\ targetEmail' = fetched.emails[target]
                                 /\ emails' = fetched.emails
                                 /\ threshold' = (pct * One) \div 100
                                 /\ pc' = "mcall"
                                 /\ resp' = NoResponse
                    ELSE /\ emails' = fetched.emails
                         /\ threshold' = (pct * One) \div 100
                         /\ pc' = "call"
                         /\ resp' = NoResponse
                         /\ UNCHANGED targetEmail
    /\ UNCHANGED <<scoreVars, stringVars, raceVars, i, j, group, groups, processed, result,
                   k, similarEmails, earlier,
                   dryRun, client, sampleEmails, archivedIDs>>

\* handleFindSimilar on any request.
handleFindSimilar ==
    /\ \E malformed \in BOOLEAN, emailId \in RequestIDs, pct \in Percentages :
         handleFindSimilarOn(malformed, emailId, pct)
    /\ UNCHANGED uiVars

\* handleFindSimilar, lines 207-211: the engine has returned, its list is
\* the response; the locals of the call are gone.
handleFindSimilarReturn ==
    /\ pc \in {"mdone", "done"}
    /\ resp' = [NoResponse EXCEPT
                  !.status = 200,
                  !.emails = IF pc = "mdone" THEN similarEmails ELSE result]
    /\ emails' = <<>>
    /\ threshold' = 0
    /\ pc' = "idle"
    /\ i' = 0
    /\ j' = 0
    /\ group' = <<>>
    /\ groups' = <<>>
    /\ processed' = {}
    /\ result' = <<>>
    /\ targetEmail' = Plain(1, <<>>)
    /\ k' = 0
    /\ similarEmails' = <<>>
    /\ UNCHANGED <<scoreVars, stringVars, raceVars, earlier, dryRun, client, sampleEmails, archivedIDs, sent, req>>

\* The same with no page attached.
handleFindSimilarRespond ==
    /\ handleFindSimilarReturn
    /\ UNCHANGED uiVars

\* handleArchive on a request whose body is malformed or holds emailIDs.
handleArchiveOn(malformed, emailIDs) ==
    /\ pc = "idle"
    /\ IF malformed
       THEN /\ req' = [NoRequest EXCEPT !.kind = "archive", !.malformed = TRUE,
                                        !.dryRun = dryRun]
            /\ resp' = [NoResponse EXCEPT !.status = 400]
            /\ sent' = {}
            /\ UNCHANGED archivedIDs
       ELSE /\ req' = [NoRequest EXCEPT !.kind = "archive", !.ids = emailIDs,
                                        !.dryRun = dryRun]
            /\ IF Len(emailIDs) = 0
               THEN /\ resp' = [NoResponse EXCEPT !.status = 400]
                    /\ sent' = {}
                    /\ UNCHANGED archivedIDs
               ELSE \E out \in jmapClientArchiveEmails(emailIDs, dryRun) :
                      /\ archivedIDs' = out.archivedIDs
                      /\ sent' = out.sent
                      /\ resp' = [NoResponse EXCEPT
                                    !.err = out.err,
                                    !.status = IF out.err THEN 500 ELSE 200]
    /\ UNCHANGED <<scoreVars, stringVars, raceVars, clusterVars, matchVars, dryRun, client, sampleEmails>>

\* handleArchive on any request.
handleArchive ==
    /\ \E malformed \in BOOLEAN, emailIDs \in IDLists : handleArchiveOn(malformed, emailIDs)
    /\ UNCHANGED uiVars

\* handleClear.
handleClearOn ==
    /\ pc = "idle"
    /\ req' = [NoRequest EXCEPT !.kind = "clear"]
    /\ resp' = [NoResponse EXCEPT !.status = 200]
    /\ sent' = {}
    /\ UNCHANGED <<scoreVars, stringVars, raceVars, clusterVars, matchVars,
                   dryRun, client, sampleEmails, archivedIDs>>

\* The same with no page attached.
handleClear ==
    /\ handleClearOn
    /\ UNCHANGED uiVars

ServerNext ==
    \/ handleGetEmails
    \/ handleFindSimilar
    \/ handleFindSimilarRespond
    \/ handleArchive
    \/ handleClear
    \/ Next
    \/ FindSimilarToEmailCall
    \/ MatchStep
    \/ MatchReturn

SpecServer == ServerInit /\ [][ServerNext]_vars

\* ------------------------------------------------------------------------
\* The web page (class MailboxZero of app.js) with the server on the mock
\* client
\* ------------------------------------------------------------------------

\* The clicks and changes the user makes at most.
MaxEvents == 5

\* The choices of the emails-per-page select; the small one stands for a
\* page size below the number of emails of the inbox.
PerPages == {2, PerPageDefault}

\* The values of the similarity slider.
SliderValues == {0, 80}

\* The identifiers of a list of emails, in its order.
IDList(es) == [n \in 1..Len(es) |-> es[n].ID]

\* Array.from of a set of identifiers (archiveEmails, line 687), written in
\* ascending order: the server's answer does not depend on the order.
RECURSIVE ArrayFrom(_)
ArrayFrom(S) ==
    IF S = {} THEN <<>>
    ELSE LET least == CHOOSE x \in S : \A y \in S : x <= y
         IN <<least>> \o ArrayFrom(S \ {least})

\* A fetch that has been called: the request, and the response once there
\* is one. Exchanges alike in everything are one. A fetch can be rejected
\* as long as no response has come: the page then runs its catch block.
NewExchange(kind) ==
    [kind |-> kind, state |-> "sent", limit |-> 0, offset |-> 0, emailId |-> NoID,
     pct |-> 0, ids |-> {}, status |-> 0, emails |-> <<>>, totalCount |-> 0,
     dryRun |-> FALSE]

\* response.ok
Ok(r) == r.state = "answered" /\ r.status >= 200 /\ r.status <= 299

\* The await of the fetch of r ends: with a response, or rejected.
Ended(r) == pc = "idle" /\ r.state \in {"sent", "answered", "failed"}

\* The exchange r with the response the server has written; a panic of the
\* handler closes the connection and the fetch is rejected.
Answered(r, response, dry) ==
    IF response.panic
    THEN [r EXCEPT !.state = "failed"]
    ELSE [r EXCEPT !.state = "answered", !.status = response.status,
                   !.emails = IDList(response.emails),
                   !.totalCount = response.totalCount, !.dryRun = dry]

\* Math.ceil(totalInboxCount / perPage), line 631.
Ceil(total, perPage) == (total + perPage - 1) \div perPage

\* The identifiers of the email items the right pane shows.
SimilarShown == IF ui.similarList = "emails" THEN Range(ui.similarEmails) ELSE {}

\* The identifiers of the email items the left pane shows.
InboxShown == IF ui.inboxList = "emails" THEN Range(ui.emails) ELSE {}

\* The page after the constructor, lines 443-461: loadEmails has been called
\* and waits for its response.
UIInit ==
    /\ ScoreIdle
    /\ StringIdle
    /\ RaceIdle
    /\ MatchIdle
    /\ emails = <<>>
    /\ threshold = 0
    /\ pc = "idle"
    /\ i = 0
    /\ j = 0
    /\ group = <<>>
    /\ groups = <<>>
    /\ processed = {}
    /\ result = <<>>
    /\ dryRun \in BOOLEAN
    /\ client = "mock"
    /\ sampleEmails = SenderEmails(1, 2) \o SenderEmails(2, 1) \o <<UniqueEmail>>
    /\ archivedIDs = {}
    /\ sent = {}
    /\ req = NoRequest
    /\ resp = NoResponse
    /\ \E controls \in Controls :
         ui = [NewPage(controls) EXCEPT !.inboxList = "loading"]
    /\ net = {[NewExchange("emails") EXCEPT !.limit = PerPageDefault]}

\* The server's variables a step of the page leaves alone.
serverSide == <<scoreVars, stringVars, raceVars, clusterVars, matchVars, serverVars>>

\* A click or a change reaches the page: the dialog is not over it. The
\* steps of the page are taken with the server between two requests: the
\* steps of the engine read and write nothing of the page, and a step of
\* the page among them is the same step before or after them.
PageOpen == ~ui.modal /\ pc = "idle" /\ ui.events < MaxEvents

\* The user starts a load, a search or a clearing, selects and sorts with no
\* exchange under way; the archive button and its dialog are used at any
\* time, a search under way included.
PageSettled == PageOpen /\ net = {}

\* The dialog is over the page.
DialogOpen == ui.modal /\ pc = "idle" /\ ui.events < MaxEvents

\* The page page after one more click or change.
Received(page) == [page EXCEPT !.events = page.events + 1]

\* loadEmails, lines 614-619: up to the fetch, the page being page.
loadEmailsCall(page) ==
    /\ ui' = [page EXCEPT !.inboxList = "loading"]
    /\ net' = net \cup {[NewExchange("emails") EXCEPT
                           !.limit = page.perPage,
                           !.offset = (page.currentPage - 1) * page.perPage]}

\* The refresh button, line 528.
ClickRefresh ==
    /\ PageSettled
    /\ loadEmailsCall(Received(ui))
    /\ UNCHANGED serverSide

\* The emails-per-page select, lines 593-597.
ChangePerPage ==
    /\ PageSettled
    /\ \E perPage \in PerPages \ {ui.perPage} :
         loadEmailsCall(Received([ui EXCEPT !.perPage = perPage, !.currentPage = 1]))
    /\ UNCHANGED serverSide

\* The previous-page button, lines 599-604.
ClickPrevPage ==
    /\ PageSettled
    /\ ~ui.prevPageDisabled
    /\ ui.currentPage > 1
    /\ loadEmailsCall(Received([ui EXCEPT !.currentPage = ui.currentPage - 1]))
    /\ UNCHANGED serverSide

\* The next-page button, lines 606-611.
ClickNextPage ==
    /\ PageSettled
    /\ ~ui.nextPageDisabled
    /\ ui.currentPage < ui.totalPages
    /\ loadEmailsCall(Received([ui EXCEPT !.currentPage = ui.currentPage + 1]))
    /\ UNCHANGED serverSide

\* loadEmails, lines 620-639: the fetch has ended. updateTitles reads
\* similarEmails.length and throws when similarEmails is null, after the
\* emails have been rendered and before updatePaginationInfo.
loadEmailsDone ==
    /\ \E r \in net :
         /\ r.kind = "emails"
         /\ Ended(r)
         /\ net' = net \ {r}
         /\ IF Ok(r)
            THEN LET totalPages == Ceil(r.totalCount, ui.perPage)
                     loaded == [ui EXCEPT !.emails = r.emails,
                                          !.totalInboxCount = r.totalCount,
                                          !.totalPages = totalPages]
                 IN IF ui.similarNull
                    THEN ui' = [loaded EXCEPT !.inboxList = "error"]
                    ELSE ui' = [loaded EXCEPT
                                  !.inboxList = "emails",
                                  !.prevPageDisabled = ui.currentPage <= 1,
                                  !.nextPageDisabled = ui.currentPage >= totalPages]
            ELSE ui' = [ui EXCEPT !.inboxList = "error"]
    /\ UNCHANGED serverSide

\* The sort select of the inbox, lines 536-539: the emails are rendered.
ChangeInboxSort ==
    /\ PageSettled
    /\ ui.inboxList # "emails"
    /\ ui' = Received([ui EXCEPT !.inboxList = "emails"])
    /\ UNCHANGED <<net, serverSide>>

\* The sort select of the results, lines 541-544: the results are rendered;
\* sortEmails throws when similarEmails is null.
ChangeSimilarSort ==
    /\ PageSettled
    /\ ui.similarList # "emails"
    /\ ~ui.similarNull
    /\ ui' = Received([ui EXCEPT !.similarList = "emails"])
    /\ UNCHANGED <<net, serverSide>>

\* A click on an email item of the inbox: selectEmail, lines 899-921.
ClickInboxItem ==
    /\ PageSettled
    /\ \E emailId \in InboxShown :
         ui' = Received([ui EXCEPT !.selectedEmailId =
                                     IF ui.selectedEmailId = emailId THEN NoID
                                     ELSE emailId])
    /\ UNCHANGED <<net, serverSide>>

\* updateControls, lines 956-964, of the page page.
updateControls(page) ==
    [page EXCEPT !.clearResultsDisabled = ~(Len(page.similarEmails) > 0),
                 !.archiveDisabled = ~(Cardinality(page.selectedSimilarEmails) > 0)]

\* updateSelectAllCheckbox, lines 940-954, of the page page.
updateSelectAllCheckbox(page) ==
    [page EXCEPT !.selectAllChecked =
                   /\ Cardinality(page.selectedSimilarEmails) # 0
                   /\ Cardinality(page.selectedSimilarEmails) = Len(page.similarEmails)]

\* A click on an email item of the results or on its checkbox, lines
\* 870-888.
ClickSimilarItem ==
    /\ PageSettled
    /\ \E emailId \in SimilarShown :
         ui' = Received(updateControls(updateSelectAllCheckbox(
                 [ui EXCEPT !.selectedSimilarEmails =
                              IF emailId \in ui.selectedSimilarEmails
                              THEN ui.selectedSimilarEmails \ {emailId}
                              ELSE ui.selectedSimilarEmails \cup {emailId}])))
    /\ UNCHANGED <<net, serverSide>>

\* The select-all checkbox, lines 532-534: toggleAllSimilarEmails, lines
\* 923-938, which throws on similarEmails being null: at forEach when
\* checked, in updateControls else.
ChangeSelectAll ==
    /\ PageSettled
    /\ LET checked == ~ui.selectAllChecked
           toggled == Received([ui EXCEPT !.selectAllChecked = checked])
       IN ui' = IF ui.similarNull
                THEN IF checked THEN toggled
                     ELSE [toggled EXCEPT !.selectedSimilarEmails = {}]
                ELSE updateControls(
                       [toggled EXCEPT !.selectedSimilarEmails =
                                         IF checked
                                         THEN ui.selectedSimilarEmails
                                                \cup Range(ui.similarEmails)
                                         ELSE {}])
    /\ UNCHANGED <<net, serverSide>>

\* The find-similar button, line 529: findSimilarEmails, lines 642-661, up
\* to the fetch.
ClickFindSimilar ==
    /\ PageSettled
    /\ \E similarityThreshold \in SliderValues :
         net' = net \cup {[NewExchange("similar") EXCEPT
                             !.emailId = ui.selectedEmailId,
                             !.pct = similarityThreshold]}
    /\ ui' = Received([ui EXCEPT !.similarList = "loading"])
    /\ UNCHANGED serverSide

\* findSimilarEmails, lines 663-682: the fetch has ended. The server writes
\* null for a nil list, and similarEmails.length then throws after the
\* selection has been cleared.
findSimilarEmailsDone ==
    /\ \E r \in net :
         /\ r.kind = "similar"
         /\ Ended(r)
         /\ net' = net \ {r}
         /\ IF Ok(r)
            THEN IF r.emails = <<>>
                 THEN ui' = [ui EXCEPT !.similarEmails = <<>>,
                                       !.similarNull = TRUE,
                                       !.selectedSimilarEmails = {},
                                       !.similarList = "error"]
                 ELSE ui' = updateControls(
                              [ui EXCEPT !.similarEmails = r.emails,
                                         !.similarNull = FALSE,
                                         !.selectedSimilarEmails = Range(r.emails),
                                         !.similarList = "emails",
                                         !.selectAllChecked = TRUE])
            ELSE ui' = [ui EXCEPT !.similarList = "error"]
    /\ UNCHANGED serverSide

\* The archive button, line 546: showArchiveModal.
ClickArchive ==
    /\ PageOpen
    /\ ~ui.archiveDisabled
    /\ ui' = Received([ui EXCEPT !.modal = TRUE])
    /\ UNCHANGED <<net, serverSide>>

\* The cancel button and the overlay, lines 548-549: hideArchiveModal.
ClickCancel ==
    /\ DialogOpen
    /\ ui' = Received([ui EXCEPT !.modal = FALSE])
    /\ UNCHANGED <<net, serverSide>>

\* The confirm button, line 547: archiveEmails, lines 685-695, up to the
\* fetch.
ClickConfirm ==
    /\ DialogOpen
    /\ net' = net \cup {[NewExchange("archive") EXCEPT !.ids = ui.selectedSimilarEmails]}
    /\ ui' = Received(ui)
    /\ UNCHANGED serverSide

\* clearResults, line 720: up to the fetch.
clearResultsCall == {NewExchange("clear")}

\* archiveEmails, lines 697-715: the fetch has ended. After an archive that
\* was no dry run loadEmails and clearResults are called, each running up to
\* its fetch.
archiveEmailsDone ==
    /\ \E r \in net :
         /\ r.kind = "archive"
         /\ Ended(r)
         /\ IF Ok(r) /\ ~r.dryRun
            THEN /\ ui' = [ui EXCEPT !.modal = FALSE, !.inboxList = "loading"]
                 /\ net' = ((net \ {r})
                              \cup {[NewExchange("emails") EXCEPT
                                       !.limit = ui.perPage,
                                       !.offset = (ui.currentPage - 1) * ui.perPage]})
                              \cup clearResultsCall
            ELSE /\ ui' = [ui EXCEPT !.modal = FALSE]
                 /\ net' = net \ {r}
    /\ UNCHANGED serverSide

\* The clear-results button, line 530.
ClickClearResults ==
    /\ PageSettled
    /\ ~ui.clearResultsDisabled
    /\ net' = net \cup clearResultsCall
    /\ ui' = Received(ui)
    /\ UNCHANGED serverSide

\* clearResults, lines 721-731: the fetch has ended; response.ok is not
\* read, and a rejected fetch leaves the page as it is.
clearResultsDone ==
    /\ \E r \in net :
         /\ r.kind = "clear"
         /\ Ended(r)
         /\ net' = net \ {r}
         /\ ui' = IF r.state = "answered"
                  THEN updateControls([ui EXCEPT !.similarEmails = <<>>,
                                                 !.similarNull = FALSE,
                                                 !.selectedSimilarEmails = {},
                                                 !.similarList = "empty"])
                  ELSE ui
    /\ UNCHANGED serverSide

\* The server takes a request of the page and runs its handler.
ServeGetEmails ==
    /\ \E r \in net :
         /\ r.kind = "emails"
         /\ r.state = "sent"
         /\ handleGetEmailsOn(<<r.limit>>, <<r.offset>>)
         /\ net' = (net \ {r}) \cup {Answered(r, resp', dryRun)}
    /\ UNCHANGED ui

ServeFindSimilar ==
    /\ \E r \in net :
         /\ r.kind = "similar"
         /\ r.state = "sent"
         /\ handleFindSimilarOn(FALSE, r.emailId, r.pct)
         /\ net' = (net \ {r}) \cup {IF pc' = "idle"
                                     THEN Answered(r, resp', dryRun)
                                     ELSE [r EXCEPT !.state = "serving"]}
    /\ UNCHANGED ui

ServeFindSimilarReturn ==
    /\ handleFindSimilarReturn
    /\ \E r \in net :
         /\ r.state = "serving"
         /\ net' = (net \ {r}) \cup {Answered(r, resp', dryRun)}
    /\ UNCHANGED ui

ServeArchive ==
    /\ \E r \in net :
         /\ r.kind = "archive"
         /\ r.state = "sent"
         /\ handleArchiveOn(FALSE, ArrayFrom(r.ids))
         /\ net' = (net \ {r}) \cup {Answered(r, resp', dryRun)}
    /\ UNCHANGED ui

ServeClear ==
    /\ \E r \in net :
         /\ r.kind = "clear"
         /\ r.state = "sent"
         /\ handleClearOn
         /\ net' = (net \ {r}) \cup {Answered(r, resp', dryRun)}
    /\ UNCHANGED ui

UINext ==
    \/ ClickRefresh
    \/ ChangePerPage
    \/ ClickPrevPage
    \/ ClickNextPage
    \/ loadEmailsDone
    \/ ChangeInboxSort
    \/ ChangeSimilarSort
    \/ ClickInboxItem
    \/ ClickSimilarItem
    \/ ChangeSelectAll
    \/ ClickFindSimilar
    \/ findSimilarEmailsDone
    \/ ClickArchive
    \/ ClickCancel
    \/ ClickConfirm
    \/ archiveEmailsDone
    \/ ClickClearResults
    \/ clearResultsDone
    \/ ServeGetEmails
    \/ ServeFindSimilar
    \/ ServeFindSimilarReturn
    \/ ServeArchive
    \/ ServeClear
    \/ Next
    \/ FindSimilarToEmailCall
    \/ MatchStep
    \/ MatchReturn

SpecUI == UIInit /\ [][UINext]_vars

\* ------------------------------------------------------------------------
\* The server on the mock client with requests served at the same time
\* ------------------------------------------------------------------------

\* http.ListenAndServe serves every connection in a goroutine of its own:
\* the goroutines that serve requests at the same time, at most.
MaxRoutines == 2

Routines == 1..MaxRoutines

\* The requests of the model: the identifiers of /api/archive. The limit and
\* the offset of a listing are read after the last access to the map.
RaceIDLists == {<<1>>, <<5, 1>>}

RaceInit ==
    /\ ScoreIdle
    /\ StringIdle
    /\ UIIdle
    /\ ClusterIdle
    /\ MatchIdle
    /\ dryRun \in BOOLEAN
    /\ client = "mock"
    /\ sampleEmails = SenderEmails(1, 1) \o SenderEmails(2, 1) \o <<UniqueEmail>>
    /\ archivedIDs = {}
    /\ sent = {}
    /\ req = NoRequest
    /\ resp = NoResponse
    /\ routines = [g \in Routines |-> NoRoutine]
    /\ fatal = FALSE

\* What a step of a goroutine leaves alone, the map apart.
raceFrame ==
    <<scoreVars, stringVars, uiVars, clusterVars, matchVars,
      dryRun, client, sampleEmails, sent, req, resp>>

\* The next step of the goroutine g writes the map (mock.go line 113), reads
\* it (lines 59 and 89).
Writing(g) == routines[g].pc = "write"

Reading(g) == routines[g].pc \in {"count", "list"}

Accessing(g) == Writing(g) \/ Reading(g)

\* The next access of g and that of another goroutine are a data race: they
\* are not ordered (the handlers share no lock, no channel) and one of them
\* is a write.
Raced(g) ==
    \E h \in Routines \ {g} :
      \/ Writing(h) /\ Accessing(g)
      \/ Accessing(h) /\ Writing(g)

\* What m.archivedIDs[id] can give the goroutine g: the entry; anything
\* when the read is part of a data race.
ReadArchived(g, id) == IF Raced(g) THEN BOOLEAN ELSE {id \in archivedIDs}

\* handleGetEmails, lines 139-157: a goroutine takes a request and comes to
\* GetInboxEmailsWithCountPaginated.
ServeGetEmailsRequest(g) ==
    /\ ~fatal
    /\ routines[g].kind = "none"
    /\ routines' = [routines EXCEPT ![g] =
                      [NoRoutine EXCEPT !.kind = "emails", !.pc = "count", !.n = 1]]
    /\ UNCHANGED <<raceFrame, archivedIDs, fatal>>

\* handleFindSimilar, lines 173-180: a goroutine takes a request and comes
\* to GetInboxEmails(1000).
ServeFindSimilarRequest(g) ==
    /\ ~fatal
    /\ routines[g].kind = "none"
    /\ routines' = [routines EXCEPT ![g] =
                      [NoRoutine EXCEPT !.kind = "similar", !.pc = "list", !.n = 1]]
    /\ UNCHANGED <<raceFrame, archivedIDs, fatal>>

\* handleArchive, lines 217-229, and ArchiveEmails, lines 106-111: a
\* goroutine takes a request and comes to the loop over the identifiers, or
\* past it in a dry run.
ServeArchiveRequest(g) ==
    /\ ~fatal
    /\ routines[g].kind = "none"
    /\ \E emailIDs \in RaceIDLists :
         routines' = [routines EXCEPT ![g] =
                        [NoRoutine EXCEPT !.kind = "archive", !.ids = emailIDs, !.n = 1,
                                          !.pc = IF dryRun THEN "respond" ELSE "write"]]
    /\ UNCHANGED <<raceFrame, archivedIDs, fatal>>

\* GetInboxEmailsWithCountPaginated, lines 88-92: one round of the counting
\* loop.
CountStep(g) ==
    /\ ~fatal
    /\ routines[g].pc = "count"
    /\ \E archived \in ReadArchived(g, sampleEmails[routines[g].n].ID) :
         routines' = [routines EXCEPT ![g] =
                        [@ EXCEPT !.totalCount = IF archived THEN @ ELSE @ + 1,
                                  !.n = IF routines[g].n = Len(sampleEmails) THEN 1 ELSE @ + 1,
                                  !.pc = IF routines[g].n = Len(sampleEmails)
                                         THEN "list" ELSE "count"]]
    /\ UNCHANGED <<raceFrame, archivedIDs, fatal>>

\* GetInboxEmailsPaginated, lines 58-62: one round of the filtering loop.
ListStep(g) ==
    /\ ~fatal
    /\ routines[g].pc = "list"
    /\ \E archived \in ReadArchived(g, sampleEmails[routines[g].n].ID) :
         routines' = [routines EXCEPT ![g] =
                        [@ EXCEPT !.inboxEmails =
                                    IF archived THEN @
                                    ELSE Append(@, sampleEmails[routines[g].n].ID),
                                  !.n = @ + 1,
                                  !.pc = IF routines[g].n = Len(sampleEmails)
                                         THEN "respond" ELSE "list"]]
    /\ UNCHANGED <<raceFrame, archivedIDs, fatal>>

\* ArchiveEmails, lines 112-114: one round of the loop. A write that is
\* part of a data race can be lost.
WriteStep(g) ==
    /\ ~fatal
    /\ routines[g].pc = "write"
    /\ \E written \in IF Raced(g) THEN BOOLEAN ELSE {TRUE} :
         archivedIDs' = IF written
                        THEN archivedIDs \cup {routines[g].ids[routines[g].n]}
                        ELSE archivedIDs
    /\ routines' = [routines EXCEPT ![g] =
                      [@ EXCEPT !.n = @ + 1,
                                !.pc = IF routines[g].n = Len(routines[g].ids)
                                       THEN "respond" ELSE "write"]]
    /\ UNCHANGED <<raceFrame, fatal>>

\* The runtime finds the map read and written, or written twice, at the
\* same time and ends the process (fatal error: concurrent map read and map
\* write, concurrent map writes).
FatalError(g) ==
    /\ ~fatal
    /\ Accessing(g)
    /\ Raced(g)
    /\ fatal' = TRUE
    /\ UNCHANGED <<raceFrame, archivedIDs, routines>>

\* The handler writes the response from what it has read (the engine works
\* on the list of the goroutine alone) and returns.
HandlerReturn(g) ==
    /\ ~fatal
    /\ routines[g].pc = "respond"
    /\ routines' = [routines EXCEPT ![g] = NoRoutine]
    /\ UNCHANGED <<raceFrame, archivedIDs, fatal>>

RaceNext ==
    \E g \in Routines :
      \/ ServeGetEmailsRequest(g)
      \/ ServeFindSimilarRequest(g)
      \/ ServeArchiveRequest(g)
      \/ CountStep(g)
      \/ ListStep(g)
      \/ WriteStep(g)
      \/ FatalError(g)
      \/ HandlerReturn(g)

SpecRace == RaceInit /\ [][RaceNext]_vars

\* ------------------------------------------------------------------------
\* Properties
\* ------------------------------------------------------------------------
BothScored == sFwd.done /\ sRev.done

\* The two calls extracted the same body for each of the two emails.
SameBodies == sFwd.body1 = sRev.body2 /\ sFwd.body2 = sRev.body1

HasSender(email) == Len(email.From) > 0

EightTenths == (8 * One) \div 10

\* C1: the composite score is symmetric: calculateEmailSimilarity(a, b)
\* equals calculateEmailSimilarity(b, a), also with repeated words (stated
\* for two calls that extracted the same bodies, so that only the order of
\* the arguments differs).
C1_Symmetric ==
    (BothScored /\ SameBodies) => sFwd.sim = sRev.sim

OneBody(email) ==
    \E body \in extractEmailBody(email) :
        body # <<>> /\ extractEmailBody(email) = {body}

NoBody(email) == extractEmailBody(email) = {<<>>}

RECURSIVE GroupedIDs(_)
GroupedIDs(gs) ==
    IF gs = <<>> THEN <<>>
    ELSE [n \in 1..Len(Head(gs).Emails) |-> Head(gs).Emails[n].ID] \o GroupedIDs(Tail(gs))

AllGroupedIDs == GroupedIDs(groups) \o [n \in 1..Len(group) |-> group[n].ID]

\* C3: at every step of groupSimilarEmails no identifier occurs twice among
\* the members of the formed groups and of the group being formed.
C3_NoRecordTwice ==
    \A m, n \in 1..Len(AllGroupedIDs) : m # n => AllGroupedIDs[m] # AllGroupedIDs[n]

\* C3 witness: the collection holds an identifier twice, and a group with an
\* email of that identifier was formed.
C3_Witness ==
    /\ pc = "done"
    /\ \E m, n \in 1..Len(emails) :
         /\ m < n
         /\ emails[m].ID = emails[n].ID
         /\ \E g \in 1..Len(groups) : groups[g].Emails[1] = emails[m]

\* The earliest formed group among those with the most members.
EarliestLargest ==
    CHOOSE g \in 1..Len(groups) :
        /\ Len(groups[g].Emails) = MaxLen(groups)
        /\ \A h \in 1..(g - 1) : Len(groups[h].Emails) < MaxLen(groups)

\* C4: FindSimilarEmails returns the group with the most members, the
\* earliest formed one among several of that size.
C4_EarliestLargestReturned ==
    (pc = "done" /\ Len(groups) > 0) => result = groups[EarliestLargest].Emails

\* C5: the output of FindSimilarToEmail starts with an email of the target's
\* identifier and holds no other email of that identifier.
C5_TargetFirst ==
    (pc \in {"mloop", "mdone"}) =>
        /\ Len(similarEmails) >= 1
        /\ similarEmails[1].ID = targetEmail.ID
        /\ \A n \in 2..Len(similarEmails) : similarEmails[n].ID # targetEmail.ID

\* C5 witness: the call returned more than the target, from a collection
\* holding an email with the target's identifier and other content.
C5_Witness ==
    /\ pc = "mdone"
    /\ Len(similarEmails) >= 2
    /\ \E n \in 1..Len(emails) :
         emails[n].ID = targetEmail.ID /\ emails[n] # targetEmail

RECURSIVE IsSubSeq(_, _)
IsSubSeq(s, t) ==
    IF s = <<>> THEN TRUE
    ELSE IF t = <<>> THEN FALSE
    ELSE IF Head(s) = Head(t) THEN IsSubSeq(Tail(s), Tail(t))
    ELSE IsSubSeq(s, Tail(t))

\* The emails of other identifiers that reach the threshold with every /
\* with some value the score can take, in input order.
MustMatch(t) ==
    LET Test(c) == c.ID # targetEmail.ID /\ \A v \in SimilarityOutcomes(targetEmail, c) : v >= t
    IN SelectSeq(emails, Test)

MayMatch(t) ==
    LET Test(c) == c.ID # targetEmail.ID /\ \E v \in SimilarityOutcomes(targetEmail, c) : v >= t
    IN SelectSeq(emails, Test)

\* C6: FindSimilarToEmail returns the target followed by exactly the emails
\* of other identifiers scoring at least the threshold, in input order; so
\* of two calls the output at the higher threshold is a subsequence of the
\* output at the lower one.
C6_ExactAndMonotone ==
    /\ pc = "mdone" =>
        /\ similarEmails[1] = targetEmail
        /\ IsSubSeq(MustMatch(threshold), Tail(similarEmails))
        /\ IsSubSeq(Tail(similarEmails), MayMatch(threshold))
    /\ (pc = "mdone" /\ earlier.called) =>
        /\ earlier.threshold <= threshold => IsSubSeq(similarEmails, earlier.similarEmails)
        /\ threshold <= earlier.threshold => IsSubSeq(earlier.similarEmails, similarEmails)

\* C7 as claimed: above score(a, b) the returned group never holds both a
\* and b (the threshold of the call exceeds every value their score takes).
C7_NoPairBelowThreshold ==
    pc = "done" =>
        \A m, n \in 1..Len(result) :
            m < n => \E v \in SimilarityOutcomes(result[m], result[n]) : v >= threshold

\* C7 amended: above score(a, b) the returned group never has a as its first
\* record and b as another member.
C7_NoAnchorPairBelowThreshold ==
    pc = "done" =>
        \A n \in 2..Len(result) :
            \E v \in SimilarityOutcomes(result[1], result[n]) : v >= threshold

\* C7 witness: a group was returned in which two members other than the
\* first score below the threshold.
C7_Witness ==
    /\ pc = "done"
    /\ \E m, n \in 2..Len(result) :
         /\ m < n
         /\ \A v \in SimilarityOutcomes(result[m], result[n]) : v < threshold

InUnit(x) == 0 <= x /\ x <= One

NoSenderAddress(email) == Len(email.From) = 0 \/ email.From[1] = <<>>

\* C10: when either email has no sender address the sender term is 0 and the
\* score is at most 0.6.
C10_NoSenderZero ==
    (sFwd.done /\ (NoSenderAddress(sEmail1) \/ NoSenderAddress(sEmail2))) =>
        /\ sFwd.senderSim = 0
        /\ 10 * sFwd.sim <= 6 * One

\* C11: FindSimilarEmails returns nothing for an empty collection (nil or of
\* length 0) and for a collection of one record, at every threshold.
C11_NothingBelowTwoRecords ==
    (pc = "done" /\ Len(emails) <= 1) => result = <<>>

\* C11 witness: the call on a collection of one record returned, at a
\* threshold the record's score with itself would reach.
C11_Witness ==
    /\ pc = "done"
    /\ Len(emails) = 1
    /\ threshold <= 0
    /\ result = <<>>

DistinctIDs(es) == \A m, n \in 1..Len(es) : m # n => es[m].ID # es[n].ID

\* The emails of the collection whose identifier is not the target's, in
\* input order.
OtherIDs ==
    LET Test(c) == c.ID # targetEmail.ID
    IN SelectSeq(emails, Test)

\* C12: at a threshold of 0 or less FindSimilarToEmail returns the target
\* followed by every email of another identifier, and FindSimilarEmails
\* returns a collection of two or more emails with distinct identifiers
\* whole, as one group; at a threshold above 1 FindSimilarToEmail returns
\* only the target and FindSimilarEmails returns nothing.
C12_DegenerateThresholds ==
    /\ (pc = "mdone" /\ threshold <= 0) => similarEmails = <<targetEmail>> \o OtherIDs
    /\ (pc = "done" /\ threshold <= 0 /\ Len(emails) >= 2 /\ DistinctIDs(emails))
       => result = emails
    /\ (pc = "mdone" /\ threshold > One) => similarEmails = <<targetEmail>>
    /\ (pc = "done" /\ threshold > One) => result = <<>>

\* C12 witness: FindSimilarToEmail returned only the target at a threshold
\* above 1, and then at threshold 0, from the same collection, an email too
\* that scores 0.0 with the target.
C12_Witness ==
    /\ pc = "mdone"
    /\ threshold = 0
    /\ \E n \in 2..Len(similarEmails) :
         SimilarityOutcomes(targetEmail, similarEmails[n]) = {0}
    /\ earlier.called
    /\ earlier.threshold > One
    /\ earlier.similarEmails = <<targetEmail>>

\* C13: the score is deterministic: two evaluations of
\* calculateEmailSimilarity on the same two records yield the same value,
\* also for a record with an empty preview and two or more non-empty body
\* values (stated for a record scored twice against itself, where both
\* calls have the same arguments).
C13_Deterministic ==
    (BothScored /\ sEmail1 = sEmail2) => sFwd.sim = sRev.sim

\* The body excerpt of the email is the same at every extraction.
FixedBody(email) == Cardinality(extractEmailBody(email)) = 1

FixedBodies == \A n \in 1..Len(emails) : FixedBody(emails[n])

NotArchived == {email \in Range(sampleEmails) : email.ID \notin archivedIDs}

Listing == {"GetInboxEmails", "GetInboxEmailsPaginated",
            "GetInboxEmailsWithCount", "GetInboxEmailsWithCountPaginated"}

\* C16: in the mock mailbox the archived set only grows and the sample list
\* never changes; whatever a listing call returns are sample emails not
\* archived, in the order of the sample list, so an email archived with
\* dryRun = false is never listed again; a listing from offset 0 with a limit
\* of at least the size of the sample list is exactly the sample emails not
\* archived, and TotalCount is their number.
C16_MockMailbox ==
    /\ [][archivedIDs \subseteq archivedIDs' /\ sampleEmails' = sampleEmails]_vars
    /\ []((req.kind \in Listing /\ ~resp.panic) =>
            /\ IsSubSeq(resp.emails, sampleEmails)
            /\ Range(resp.emails) \subseteq NotArchived)
    /\ []((req.kind \in {"GetInboxEmails", "GetInboxEmailsWithCount"}
           /\ req.limit >= Len(sampleEmails))
          => (~resp.panic /\ Range(resp.emails) = NotArchived))
    /\ []((req.kind \in {"GetInboxEmailsWithCount", "GetInboxEmailsWithCountPaginated"}
           /\ ~resp.panic)
          => resp.totalCount = Cardinality(NotArchived))

\* C16 witness: after two sample emails were archived, a listing of the whole
\* inbox returned the others and counted them.
C16_Witness ==
    /\ req.kind = "GetInboxEmailsWithCount"
    /\ req.limit >= Len(sampleEmails)
    /\ Cardinality(NotArchived) = Len(sampleEmails) - 2
    /\ Len(resp.emails) = Len(sampleEmails) - 2
    /\ resp.totalCount = Len(sampleEmails) - 2

IDsOf(es) == {es[n].ID : n \in 1..Len(es)}

\* C17: GetInboxEmailsPaginated(limit, offset) returns, without error or
\* panic, the emails offset .. min(offset + limit, n) - 1 of the n inbox
\* emails: at most limit emails, none from offset n on; the pages at
\* different multiples of limit share no email; and
\* GetInboxEmailsWithCountPaginated reports on every page the same
\* TotalCount, never less than the number of emails of the page.
C17_PageIsSlice ==
    /\ (req.kind \in {"GetInboxEmailsPaginated", "GetInboxEmailsWithCountPaginated"}) =>
        /\ ~resp.err
        /\ ~resp.panic
        /\ resp.emails =
             SubSeq(inboxEmails, req.offset + 1,
                    Smaller(req.offset + req.limit, Len(inboxEmails)))
        /\ Len(resp.emails) <= req.limit
        /\ req.offset >= Len(inboxEmails) => resp.emails = <<>>
    /\ (req.kind = "GetInboxEmailsWithCountPaginated") =>
        /\ resp.totalCount = Len(inboxEmails)
        /\ resp.totalCount >= Len(resp.emails)
    /\ \A limit \in Limits : \A p, q \in 0..2 :
         (p # q /\ q * limit <= MaxInt) =>
            IDsOf(GetInboxEmailsPaginated(limit, p * limit).emails)
              \cap IDsOf(GetInboxEmailsPaginated(limit, q * limit).emails) = {}

C18_TargetFromInbox ==
    /\ (/\ req.kind = "similar"
        /\ ~req.malformed
        /\ req.emailId # NoID
        /\ req.emailId \notin IDsOf(inboxEmails))
       => /\ pc = "idle"
          /\ resp.status = 404 \/ (client = "real" /\ resp.status = 500)
    /\ (pc \in {"mcall", "mloop", "mdone"}) =>
          /\ req.kind = "similar"
          /\ req.emailId # NoID
          /\ emails = inboxEmails
          /\ \E n \in 1..Len(emails) :
               /\ targetEmail = emails[n]
               /\ \A m \in 1..(n - 1) : emails[m].ID # req.emailId
          /\ targetEmail.ID = req.emailId
          /\ 100 * threshold = req.pct * One
    /\ (pc \in {"call", "outer", "inner", "done"}) =>
          /\ req.kind = "similar"
          /\ req.emailId = NoID
          /\ emails = inboxEmails
          /\ 100 * threshold = req.pct * One

\* C18 witness: the request named a sample email that had been archived and
\* was answered 404, the engine not called.
C18_Witness ==
    /\ req.kind = "similar"
    /\ req.emailId \in IDsOf(sampleEmails)
    /\ req.emailId \in archivedIDs
    /\ resp.status = 404
    /\ pc = "idle"
    /\ inboxEmails # <<>>

\* Some / every value the score of the pair can take reaches the threshold.
MayReach(a, b) == \E v \in SimilarityOutcomes(a, b) : v >= threshold

MustReach(a, b) == \A v \in SimilarityOutcomes(a, b) : v >= threshold

\* C19: a group is its anchor followed, in input order, by exactly the later
\* emails that were not processed when reached and score at least the
\* threshold with the anchor. While the inner loop runs, the group starts
\* with the anchor emails[i], its other members are a subsequence of the
\* emails scanned so far and each reaches the threshold with the anchor, and
\* a scanned email that reaches it with the anchor, its identifier not
\* processed before this anchor, has its identifier in the group; every
\* formed group is a subsequence of the collection whose members reach the
\* threshold with its first member.
C19_AnchoredGroups ==
    /\ (pc = "inner") =>
        /\ Len(group) >= 1
        /\ group[1] = emails[i]
        /\ IsSubSeq(Tail(group), SubSeq(emails, i + 1, j - 1))
        /\ \A n \in 2..Len(group) : MayReach(emails[i], group[n])
        /\ \A p \in (i + 1)..(j - 1) :
             (/\ MustReach(emails[i], emails[p])
              /\ emails[p].ID \notin (processed \ IDsOf(group)))
             => emails[p].ID \in IDsOf(group)
    /\ \A g \in 1..Len(groups) :
         /\ IsSubSeq(groups[g].Emails, emails)
         /\ \A n \in 2..Len(groups[g].Emails) :
              MayReach(groups[g].Emails[1], groups[g].Emails[n])

\* C19 witness: a group was formed that leaves out a later email scoring
\* below the threshold with the anchor, although the email reaches the
\* threshold with another member of the group.
C19_Witness ==
    /\ pc = "done"
    /\ \E g \in 1..Len(groups) : \E p \in 1..Len(emails) :
         /\ emails[p].ID \notin IDsOf(groups[g].Emails)
         /\ ~MayReach(groups[g].Emails[1], emails[p])
         /\ \E n \in 2..Len(groups[g].Emails) : MustReach(groups[g].Emails[n], emails[p])
         /\ \E q \in 1..(p - 1) : emails[q] = groups[g].Emails[1]

\* C20: every group groupSimilarEmails forms has at least two members, so
\* FindSimilarEmails never returns a list of exactly one email.
C20_GroupsOfTwoOrMore ==
    /\ \A g \in 1..Len(groups) : Len(groups[g].Emails) >= 2
    /\ pc = "done" => Len(result) # 1

\* C20 witness: the call returned a group although an anchor had stayed
\* alone, its group of one dropped.
C20_Witness ==
    /\ pc = "done"
    /\ Len(result) >= 2
    /\ \E n \in 1..Len(emails) :
         emails[n].ID \in processed /\ \A g \in 1..Len(groups) :
                                          emails[n].ID \notin IDsOf(groups[g].Emails)

\* Some pair of emails with different identifiers, the first before the
\* second in input order, reaches the threshold with every / with some value
\* its score can take.
PairMustReach ==
    \E m, n \in 1..Len(emails) :
        m < n /\ emails[m].ID # emails[n].ID /\ MustReach(emails[m], emails[n])

PairMayReach ==
    \E m, n \in 1..Len(emails) :
        m < n /\ emails[m].ID # emails[n].ID /\ MayReach(emails[m], emails[n])

\* C21 as claimed: FindSimilarEmails returns nothing exactly when no pair of
\* records with different identifiers, the first before the second, scores
\* at least the threshold; with such a pair it returns a group of two or
\* more records.
C21_AbsentIffNoPair ==
    pc = "done" =>
        /\ PairMustReach => Len(result) >= 2
        /\ result # <<>> => PairMayReach

\* C21 amended: the same for a collection whose records have pairwise
\* different identifiers; for every collection a returned group has two or
\* more records and holds such a pair.
C21_AbsentIffNoPairDistinct ==
    pc = "done" =>
        /\ (DistinctIDs(emails) /\ PairMustReach) => Len(result) >= 2
        /\ result # <<>> => (Len(result) >= 2 /\ PairMayReach)

\* C21 witness: from three records of different identifiers a group was
\* returned that the first record is not part of, at a threshold above 0;
\* the pair reaching the threshold is the second and the third record.
C21_Witness ==
    /\ pc = "done"
    /\ Len(emails) = 3
    /\ DistinctIDs(emails)
    /\ threshold > 0
    /\ result = <<emails[2], emails[3]>>
    /\ MustReach(emails[2], emails[3])
    /\ ~MayReach(emails[1], emails[2])
    /\ ~MayReach(emails[1], emails[3])

\* The sums of one score for each pair (m, n) of the list with m < n, the
\* pairs taken by their second record n and for each n from m down to 1;
\* for every pair the score is any of the values it can take.
RECURSIVE ColumnSums(_, _, _)
ColumnSums(es, n, m) ==
    IF m < 1 THEN {0}
    ELSE {v + s : v \in SimilarityOutcomes(es[m], es[n]), s \in ColumnSums(es, n, m - 1)}

RECURSIVE PairSums(_, _)
PairSums(es, n) ==
    IF n < 2 THEN {0}
    ELSE {s + t : s \in ColumnSums(es, n, n - 1), t \in PairSums(es, n - 1)}

\* The value is the mean of one score per unordered pair of the list: the
\* sum of the scores divided by n(n-1)/2.
IsPairMean(value, es) ==
    /\ value.total \in PairSums(es, Len(es))
    /\ value.count = (Len(es) * (Len(es) - 1)) \div 2

IsZero(value) == value.total = 0 /\ value.count # 0

EditDistance(a, b) ==
    LET D[x \in 0..Len(a), y \in 0..Len(b)] ==
            IF x = 0 THEN y
            ELSE IF y = 0 THEN x
            ELSE min(D[x - 1, y] + 1, D[x, y - 1] + 1,
                     D[x - 1, y - 1] + (IF a[x] = b[y] THEN 0 ELSE 1))
    IN D[Len(a), Len(b)]

\* C23: levenshteinDistance(s1, s2) is the classic edit distance of the rune
\* sequences, an empty s1 or s2 included; it is symmetric, 0 exactly for
\* equal strings, and at most the larger number of runes.
C23_EditDistance ==
    strOut.op = "levenshteinDistance" =>
        /\ strOut.distance = EditDistance(str1, str2)
        /\ strOut.distance = levenshteinDistance(str2, str1)
        /\ strOut.distance = 0 <=> str1 = str2
        /\ strOut.distance <= max(Len(str1), Len(str2))
        /\ str1 = <<>> => strOut.distance = Len(str2)
        /\ str2 = <<>> => strOut.distance = Len(str1)

\* C23 witness: the distance of two strings of different lengths with a
\* two-byte rune is below the larger length and above the difference of the
\* lengths (a substitution and an insertion).
C23_Witness ==
    /\ strOut.op = "levenshteinDistance"
    /\ Len(str1) < Len(str2)
    /\ \E n \in 1..Len(str2) : str2[n] \in WideLetters
    /\ strOut.distance < Len(str2)
    /\ strOut.distance > Len(str2) - Len(str1)

\* The normalized arguments of the string call.
norm1 == normalizeString(str1)

norm2 == normalizeString(str2)

\* The normalized arguments differ and neither is empty: stringSimilarity
\* computes a distance.
Compared == norm1 # norm2 /\ norm1 # <<>> /\ norm2 # <<>>

\* C24: for two different non-empty normalized strings the similarity before
\* the bonus is 1 - d/L, L being the larger number of code points of the
\* two, also with characters outside ASCII (stated for the calls that add
\* no bonus, where the result is the base similarity).
C24_BaseByCodePoints ==
    (strOut.op = "stringSimilarity" /\ Compared /\ ~containsCommonWords(norm1, norm2)) =>
        strOut.similarity =
            One - ((levenshteinDistance(norm1, norm2) * One) \div max(Len(norm1), Len(norm2)))

\* The number of tokens of s1 (each occurrence counted) that have at least 3
\* code points and occur among the tokens of s2.
SharedTokens(s1, s2) ==
    Cardinality({n \in 1..Len(Fields(s1)) :
                   /\ Len(Fields(s1)[n]) >= 3
                   /\ Fields(s1)[n] \in Range(Fields(s2))})

\* C25: the +0.1 bonus is applied exactly when at least 2 tokens of the first
\* normalized string that have 3 or more code points are found among the
\* tokens of the second; tokens of fewer than 3 code points never count and
\* one shared token is not enough. Stated for containsCommonWords called on
\* any two strings, and for stringSimilarity, whose result is the base
\* similarity 1 - d/maxLen plus 0.1 in exactly that case, capped at 1.0.
C25_BonusByCodePoints ==
    /\ strOut.op = "containsCommonWords" =>
         (strOut.common <=> SharedTokens(str1, str2) >= 2)
    /\ (strOut.op = "stringSimilarity" /\ Compared) =>
         LET base == One - ((levenshteinDistance(norm1, norm2) * One)
                            \div max(ByteLen(norm1), ByteLen(norm2)))
             bonus == IF SharedTokens(norm1, norm2) >= 2 THEN One \div 10 ELSE 0
         IN strOut.similarity = Smaller(One, base + bonus)

\* A rune that is not a letter, a digit or white space.
IsOther(r) == ~IsLetter(r) /\ ~IsDigit(r) /\ ~IsSpace(r)

OnlyOther(s) == \A n \in 1..Len(s) : IsOther(s[n])

\* The strings differ at most in the case of their letters.
SameButCase(s, t) ==
    Len(s) = Len(t) /\ \A n \in 1..Len(s) : ToLowerRune(s[n]) = ToLowerRune(t[n])

\* t is s with punctuation added at the ends.
SameButEnds(s, t) ==
    \E lo \in 0..Len(t) : \E hi \in lo..Len(t) :
        /\ SubSeq(t, lo + 1, hi) = s
        /\ OnlyOther(SubSeq(t, 1, lo))
        /\ OnlyOther(SubSeq(t, hi + 1, Len(t)))

\* C26: stringSimilarity returns 1.0 when both inputs normalize to the empty
\* string or to equal strings, as for inputs that differ only in case or
\* in punctuation at the ends or that consist of punctuation only, and 0.0
\* when exactly one input normalizes to the empty string.
C26_EqualAndEmpty ==
    strOut.op = "stringSimilarity" =>
        /\ norm1 = norm2 => strOut.similarity = One
        /\ (norm1 = <<>>) # (norm2 = <<>>) => strOut.similarity = 0
        /\ SameButCase(str1, str2) => strOut.similarity = One
        /\ (SameButEnds(str1, str2) /\ TrimSpace(str1) = str1) => strOut.similarity = One
        /\ (OnlyOther(str1) /\ OnlyOther(str2)) => strOut.similarity = One
        /\ (OnlyOther(str1) /\ \E n \in 1..Len(str2) : IsLetter(str2[n]))
           => strOut.similarity = 0

\* C26 witness: two different non-empty strings of punctuation only, which
\* both normalize to the empty string, were given similarity 1.0.
C26_Witness ==
    /\ strOut.op = "stringSimilarity"
    /\ str1 # str2
    /\ str1 # <<>> /\ str2 # <<>>
    /\ OnlyOther(str1) /\ OnlyOther(str2)
    /\ norm1 = <<>> /\ norm2 = <<>>
    /\ strOut.similarity = One

\* What one rune of the input becomes before the ends are trimmed.
Replaced(r) == IF IsOther(r) THEN " " ELSE ToLowerRune(r)

\* out is s with every rune replaced one for one, less a run of white space
\* at each end.
IsTrimmedImage(out, s) ==
    \E lo \in 0..Len(s) :
        /\ lo + Len(out) <= Len(s)
        /\ \A n \in 1..Len(out) : out[n] = Replaced(s[lo + n])
        /\ \A n \in 1..lo : IsSpace(Replaced(s[n]))
        /\ \A n \in (lo + Len(out) + 1)..Len(s) : IsSpace(Replaced(s[n]))

InInbox == IDsOf(inboxEmails)

\* C28: whenever selectedEmailId of the page is not null it is the identifier
\* of an email of the loaded inbox list (emails of the page), and no find-
\* similar request of the page carries the identifier of an email that is no
\* longer in the inbox, which the server answers with 404.
C28_SelectionInLoadedInbox ==
    /\ ui.selectedEmailId # NoID => ui.selectedEmailId \in Range(ui.emails)
    /\ \A r \in net :
         r.kind = "similar" =>
           /\ r.state = "sent" /\ net = {r} /\ r.emailId # NoID => r.emailId \in InInbox
           /\ r.status # 404

\* ------------------------------------------------------------------------
\* C29: what an archive request of the page carries
\* ------------------------------------------------------------------------

\* C29: every identifier an archive request of the page carries is that of a
\* result the right pane shows when the request is sent; with the pane
\* showing a loading or an error message nothing left over from an earlier
\* result is sent.
C29_ArchiveWhatIsShown ==
    [][\A r \in net' \ net :
         r.kind = "archive" /\ r.state = "sent" => r.ids \subseteq SimilarShown]_vars

\* ------------------------------------------------------------------------
\* C30: requests served at the same time
\* ------------------------------------------------------------------------

\* C30: with the mock client, an archive request that writes the map of the
\* archived identifiers never does so at the same time as another request
\* reads or writes the map: no interleaving of archive, list and find-similar
\* requests comes to a data race, and the runtime never ends the process.
C30_NoDataRace ==
    /\ \A g \in DOMAIN routines : Accessing(g) => ~Raced(g)
    /\ ~fatal

====
